---- MODULE Spec2Model ----
(***************************************************************************)
(* docker-stats-exporter: the scrape cycle of ContainerCollector.Collect   *)
(* (list -> filter -> cache check -> bounded fetch -> emit), the StatsCache *)
(* that survives between cycles, the container Filter and the label        *)
(* extraction used at emission.                                            *)
(*                                                                         *)
(* Text values (names, images, label values, container IDs) are sequences  *)
(* of one-character strings, so that prefix, search and per-character      *)
(* replacement are computed as the code computes them.                     *)
(***************************************************************************)
EXTENDS Integers, Sequences, FiniteSets, TLC

VARIABLES
    cfg,          \* the configuration handed to Load/Validate and the constructors
    pc,           \* position of the process / of the Collect call
    now,          \* wall clock (time.Now)
    cycle,        \* number of Collect calls started so far
    start,        \* Collect: start
    containers,   \* Collect: containers returned by ListContainers
    filtered,     \* Collect: filtered
    idx,          \* Collect: index i of the dispatch loop (1-based)
    results,      \* Collect: results
    worker,       \* position of the goroutine spawned for slot i
    sem,          \* number of elements in the channel sem
    wg,           \* counter of the sync.WaitGroup
    scrapeErrors, \* Collect: local scrapeErrors
    emitNow,      \* Collect: now, taken after wg.Wait
    eidx,         \* Collect: position of the emission loop (1-based)
    emitted,      \* what has been sent on ch in this Collect call
    entries,      \* StatsCache.entries
    hits,         \* StatsCache.hits
    misses,       \* StatsCache.misses
    listCalls,    \* observer: ListContainers calls of this cycle
    getCalls,     \* observer: per slot, StatsCache.Get calls of this cycle
    fetchCalls,   \* observer: per slot, GetContainerStats calls of this cycle
    setCalls,     \* observer: StatsCache.Set calls of this cycle
    evictCalls,   \* observer: StatsCache.EvictStale calls of this cycle
    listErr,      \* observer: ListContainers of this cycle returned an error
    lookup,       \* observer: per slot, the outcome of the dispatch loop's cache.Get
    cache0,       \* observer: the cache as it was when this cycle started
    visited,      \* observer: the phases this cycle has entered
    runtime,      \* environment: the resources the runtime holds
    scrapes,      \* environment: the number of scrapes that will be made
    last,         \* observer: the last direct call of Filter or StatsCache and its result
    calls,        \* observer: direct calls (counts; latest Set per key; all Sets; sends)
    thr,          \* per concurrent caller of StatsCache: the method it is in and its locals
    mu,           \* StatsCache.mu: the holders of the shared lock and of the exclusive lock
    cyc,          \* per concurrently served scrape: the locals of its Collect call and its ch
    heap,         \* the docker.Stats objects callers of StatsCache allocated, by address
    descIDs       \* prometheus.Registry: the descriptors of the collectors registered so far

vars == <<cfg, pc, now, cycle, start, containers, filtered, idx, results, worker, sem,
          wg, scrapeErrors, emitNow, eidx, emitted, entries, hits, misses, listCalls,
          getCalls, fetchCalls, setCalls, evictCalls, listErr, lookup, cache0, visited,
          runtime, scrapes, last, calls, thr, mu, cyc, heap, descIDs>>

----------------------------------------------------------------------------
(* Bounds of the model *)

MaxCycles == 2          \* Collect calls per behaviour of Spec
MaxTime == 3            \* the clock runs from 1 to MaxTime
MaxCalls == 4           \* direct calls of StatsCache methods per behaviour
MaxThreads == 2         \* goroutines calling StatsCache methods concurrently
MaxSends == 3           \* measurements constructed per behaviour of SendSpec
MaxLabelValues == 8     \* label values handed to SafeNewConstMetric: 0..MaxLabelValues
MaxLen == 3             \* length of the strings handed to SanitizeLabelValue: 0..MaxLen
MaxBytes == 2           \* raw memory counters are drawn from 0..MaxBytes
MaxCollects == 2        \* scrapes served at the same time by one ContainerCollector
MaxLockCalls == 3       \* StatsCache calls the goroutines make per behaviour of LockSpec
MaxConcurrentBound == 2 \* max_concurrent is drawn from 0..MaxConcurrentBound
MaxStats == 2           \* docker.Stats objects allocated per behaviour of AliasSpec
MaxRules == 2           \* texts in a labels list of RuleSpec: 0..MaxRules

Nil == "nil"      \* a nil error, a nil *Filter
NilStats == <<>>  \* a nil *docker.Stats; <<s>> points to the Stats s

----------------------------------------------------------------------------
(* Text helpers *)

IsPrefix(p, s) == Len(p) <= Len(s) /\ SubSeq(s, 1, Len(p)) = p

Contains(s, p) == \E k \in 0..(Len(s) - Len(p)) : SubSeq(s, k + 1, k + Len(p)) = p

Empty == <<>>

\* strings.SplitN(l, "=", 2): the parts before and after the first "="
SplitAtEq(l) ==
    IF \E k \in 1..Len(l) : l[k] = "="
    THEN LET k == CHOOSE j \in 1..Len(l) : l[j] = "=" /\ \A m \in 1..(j - 1) : l[m] # "="
         IN <<SubSeq(l, 1, k - 1), SubSeq(l, k + 1, Len(l))>>
    ELSE <<l>>

----------------------------------------------------------------------------
(* pkg/config: Validate *)

\* Validate without its performance.max_concurrent check
ValidateAnyConcurrency(c) ==
    IF c.Port = Empty THEN "server.port is required"
    ELSE IF c.Host = Empty THEN "docker.host is required"
    ELSE IF c.AuthEnabled /\ (c.Username = Empty \/ c.Password = Empty)
         THEN "auth username and password are required when auth is enabled"
    ELSE IF c.TLSEnabled /\ (c.CertFile = Empty \/ c.KeyFile = Empty)
         THEN "TLS cert_file and key_file are required when TLS is enabled"
    ELSE IF c.Workers < 1 THEN "performance.workers must be >= 1"
    ELSE Nil

Validate(c) ==
    IF c.Port = Empty THEN "server.port is required"
    ELSE IF c.Host = Empty THEN "docker.host is required"
    ELSE IF c.AuthEnabled /\ (c.Username = Empty \/ c.Password = Empty)
         THEN "auth username and password are required when auth is enabled"
    ELSE IF c.TLSEnabled /\ (c.CertFile = Empty \/ c.KeyFile = Empty)
         THEN "TLS cert_file and key_file are required when TLS is enabled"
    ELSE IF c.MaxConcurrent < 1 THEN "performance.max_concurrent must be >= 1"
    ELSE IF c.Workers < 1 THEN "performance.workers must be >= 1"
    ELSE Nil

----------------------------------------------------------------------------
(* internal/docker/filter.go *)

\* A pattern is what regexp.Compile is given: a literal, optionally anchored
\* with "^"; ok = FALSE is a text regexp.Compile rejects.
Pat(anchored, lit) == [ok |-> TRUE, anchored |-> anchored, lit |-> lit]
BadPat == [ok |-> FALSE, anchored |-> FALSE, lit |-> <<"(">>]

\* (*regexp.Regexp).MatchString: a search, anchored only if the pattern says so
MatchString(re, s) == IF re.anchored THEN IsPrefix(re.lit, s) ELSE Contains(s, re.lit)

RECURSIVE parseLabelsFrom(_, _)
parseLabelsFrom(raw, k) ==
    IF k > Len(raw) THEN <<>>
    ELSE LET parts == SplitAtEq(raw[k])
             rest == parseLabelsFrom(raw, k + 1)
             \* a later element of raw overwrites an earlier one with the same key
             put(key, val) == IF key \in DOMAIN rest THEN rest
                              ELSE [x \in DOMAIN rest \cup {key} |->
                                       IF x = key THEN val ELSE rest[x]]
         IN IF Len(parts) = 2 THEN put(parts[1], parts[2])
            ELSE IF parts[1] # Empty THEN put(parts[1], Empty)
            ELSE rest

parseLabels(raw) == parseLabelsFrom(raw, 1)

\* regexp.Compile of a text it accepts: the *regexp.Regexp
Compile(p) == [anchored |-> p.anchored, lit |-> p.lit]

\* compilePatterns that drops the texts regexp.Compile rejects
compilePatternsLenient(patterns) ==
    [err |-> Nil,
     res |-> LET good == SelectSeq(patterns, LAMBDA p : p.ok)
             IN [k \in 1..Len(good) |-> Compile(good[k])]]

\* compilePatterns: the compiled list, or an error at the first bad pattern
compilePatterns(patterns) ==
    IF \E k \in 1..Len(patterns) : ~patterns[k].ok
    THEN [err |-> "invalid regex", res |-> Nil]
    ELSE [err |-> Nil, res |-> [k \in 1..Len(patterns) |-> Compile(patterns[k])]]

\* matchesLabels that asks every key of the rule set to match
matchesLabelsAll(containerLabels, filterLabels) ==
    \A key \in DOMAIN filterLabels :
        /\ key \in DOMAIN containerLabels
        /\ (filterLabels[key] = Empty \/ containerLabels[key] = filterLabels[key])

matchesLabels(containerLabels, filterLabels) ==
    \E key \in DOMAIN filterLabels :
        /\ key \in DOMAIN containerLabels
        /\ (filterLabels[key] = Empty \/ containerLabels[key] = filterLabels[key])

matchesAny(s, patterns) == \E k \in 1..Len(patterns) : MatchString(patterns[k], s)

NewFilter(fc) ==
    LET inN == compilePatterns(fc.Include.Names)
        exN == compilePatterns(fc.Exclude.Names)
        inI == compilePatterns(fc.Include.Images)
        exI == compilePatterns(fc.Exclude.Images)
        inL == parseLabels(fc.Include.Labels)
        exL == parseLabels(fc.Exclude.Labels)
    IN IF inN.err # Nil THEN [err |-> "compiling include name patterns", f |-> Nil]
       ELSE IF exN.err # Nil THEN [err |-> "compiling exclude name patterns", f |-> Nil]
       ELSE IF inI.err # Nil THEN [err |-> "compiling include image patterns", f |-> Nil]
       ELSE IF exI.err # Nil THEN [err |-> "compiling exclude image patterns", f |-> Nil]
       ELSE [err |-> Nil,
             f |-> [includeLabels |-> inL, excludeLabels |-> exL,
                    includeNames |-> inN.res, excludeNames |-> exN.res,
                    includeImages |-> inI.res, excludeImages |-> exI.res,
                    hasIncludes |-> (DOMAIN inL # {} \/ Len(inN.res) > 0 \/ Len(inI.res) > 0)]]

\* Match with the include rules looked at before the exclude rules
MatchIncludeFirst(f, c) ==
    IF ~f.hasIncludes
    THEN ~(\/ matchesLabels(c.Labels, f.excludeLabels)
           \/ matchesAny(c.Name, f.excludeNames)
           \/ matchesAny(c.Image, f.excludeImages))
    ELSE IF matchesLabels(c.Labels, f.includeLabels) THEN TRUE
    ELSE IF matchesAny(c.Name, f.includeNames) THEN TRUE
    ELSE IF matchesAny(c.Image, f.includeImages) THEN TRUE
    ELSE FALSE

\* Match without its include rules
MatchExcludeOnly(f, c) ==
    IF matchesLabels(c.Labels, f.excludeLabels) THEN FALSE
    ELSE IF matchesAny(c.Name, f.excludeNames) THEN FALSE
    ELSE IF matchesAny(c.Image, f.excludeImages) THEN FALSE
    ELSE TRUE

Match(f, c) ==
    IF matchesLabels(c.Labels, f.excludeLabels) THEN FALSE
    ELSE IF matchesAny(c.Name, f.excludeNames) THEN FALSE
    ELSE IF matchesAny(c.Image, f.excludeImages) THEN FALSE
    ELSE IF ~f.hasIncludes THEN TRUE
    ELSE IF matchesLabels(c.Labels, f.includeLabels) THEN TRUE
    ELSE IF matchesAny(c.Name, f.includeNames) THEN TRUE
    ELSE IF matchesAny(c.Image, f.includeImages) THEN TRUE
    ELSE FALSE

----------------------------------------------------------------------------
(* internal/docker/labels.go *)

LabelComposeService == <<"com.docker.compose.service">>
LabelComposeProject == <<"com.docker.compose.project">>

Letters == {"a", "b", "c", "d", "e", "f", "g", "h", "i", "j", "k", "l", "m", "n", "o",
            "p", "q", "r", "s", "t", "u", "v", "w", "x", "y", "z"}
Digits == {"0", "1", "2", "3", "4", "5", "6", "7", "8", "9"}
\* invalidLabelChars is the complement of this set
SafeChars == Letters \cup Digits \cup {"_", ":", "/", ".", "@", "=", "-"}
WhiteSpace == {" ", "\t", "\n"}

RECURSIVE TrimLeft(_)
TrimLeft(s) == IF s # Empty /\ Head(s) \in WhiteSpace THEN TrimLeft(Tail(s)) ELSE s

RECURSIVE TrimRight(_)
TrimRight(s) ==
    IF s # Empty /\ s[Len(s)] \in WhiteSpace THEN TrimRight(SubSeq(s, 1, Len(s) - 1)) ELSE s

TrimSpace(s) == TrimRight(TrimLeft(s))

\* a sanitiser that puts a space where the source puts an underscore
SanitizeToSpace(s) ==
    LET t == TrimSpace(s)
    IN [k \in 1..Len(t) |-> IF t[k] \in SafeChars THEN t[k] ELSE " "]

SanitizeLabelValue(s) ==
    LET t == TrimSpace(s)
    IN [k \in 1..Len(t) |-> IF t[k] \in SafeChars THEN t[k] ELSE "_"]

\* a Go map read: the zero value for a missing key
MapGet(m, key) == IF key \in DOMAIN m THEN m[key] ELSE Empty

ExtractLabels(c) ==
    [ContainerName |-> SanitizeLabelValue(c.Name),
     ComposeService |-> SanitizeLabelValue(MapGet(c.Labels, LabelComposeService)),
     ComposeProject |-> SanitizeLabelValue(MapGet(c.Labels, LabelComposeProject)),
     Image |-> SanitizeLabelValue(c.Image)]

\* ExtractLabelsFromStats that hands on the image as it is
ExtractLabelsFromStatsRawImage(s) ==
    [ContainerName |-> SanitizeLabelValue(s.Name),
     ComposeService |-> SanitizeLabelValue(MapGet(s.Labels, LabelComposeService)),
     ComposeProject |-> SanitizeLabelValue(MapGet(s.Labels, LabelComposeProject)),
     Image |-> s.Image]

ExtractLabelsFromStats(s) ==
    [ContainerName |-> SanitizeLabelValue(s.Name),
     ComposeService |-> SanitizeLabelValue(MapGet(s.Labels, LabelComposeService)),
     ComposeProject |-> SanitizeLabelValue(MapGet(s.Labels, LabelComposeProject)),
     Image |-> SanitizeLabelValue(s.Image)]

\* Values that starts with the image
ValuesImageFirst(l) == <<l.Image, l.ContainerName, l.ComposeService, l.ComposeProject>>

Values(l) == <<l.ContainerName, l.ComposeService, l.ComposeProject, l.Image>>

LabelNames == <<"container_name", "compose_service", "compose_project", "image">>

----------------------------------------------------------------------------
(* internal/collector/cache.go: StatsCache *)

\* entries is a function from the stored IDs to cacheEntry records
cacheEntry(stats, t) == [stats |-> stats, timestamp |-> t]

\* Get for which an entry as old as the ttl has expired
GetStrict(ents, enabled, ttl, t, id) ==
    IF ~enabled THEN [stats |-> NilStats, ok |-> FALSE]
    ELSE IF id \notin DOMAIN ents \/ t - ents[id].timestamp >= ttl
         THEN [stats |-> NilStats, ok |-> FALSE]
    ELSE [stats |-> ents[id].stats, ok |-> TRUE]

Get(ents, enabled, ttl, t, id) ==
    IF ~enabled THEN [stats |-> NilStats, ok |-> FALSE]
    ELSE IF id \notin DOMAIN ents \/ t - ents[id].timestamp > ttl
         THEN [stats |-> NilStats, ok |-> FALSE]
    ELSE [stats |-> ents[id].stats, ok |-> TRUE]

\* Set on a cache that stores whether it is enabled or not
SetAlways(ents, enabled, t, id, stats) ==
    [x \in DOMAIN ents \cup {id} |-> IF x = id THEN cacheEntry(stats, t) ELSE ents[x]]

Set(ents, enabled, t, id, stats) ==
    IF ~enabled THEN ents
    ELSE [x \in DOMAIN ents \cup {id} |-> IF x = id THEN cacheEntry(stats, t) ELSE ents[x]]

\* Evict that empties the cache
EvictAll(ents, id) == <<>>

Evict(ents, id) == [x \in DOMAIN ents \ {id} |-> ents[x]]

\* EvictStale that also removes the entries exactly as old as the ttl
EvictStaleStrict(ents, ttl, t) ==
    [x \in {y \in DOMAIN ents : ~(t - ents[y].timestamp >= ttl)} |-> ents[x]]

EvictStale(ents, ttl, t) ==
    [x \in {y \in DOMAIN ents : ~(t - ents[y].timestamp > ttl)} |-> ents[x]]

----------------------------------------------------------------------------
(* internal/metrics: descriptors and safe construction *)

containerLabelNames == <<"container_name", "compose_service", "compose_project", "image">>
networkLabelNames == containerLabelNames \o <<"interface">>
blockIOLabelNames == containerLabelNames \o <<"device">>
infoLabelNames == containerLabelNames \o <<"container_id", "status", "health_status", "created">>
collectorLabelNames == <<"collector">>

MemoryDescs == <<"container_memory_usage_bytes", "container_memory_limit_bytes",
                 "container_memory_cache_bytes", "container_memory_rss_bytes",
                 "container_memory_swap_bytes", "container_memory_working_set_bytes",
                 "container_memory_failcnt">>
\* name, and whether the value is multiplied by NanosecondsToSeconds
CPUDescs == <<<<"container_cpu_usage_seconds_total", TRUE>>,
              <<"container_cpu_system_seconds_total", TRUE>>,
              <<"container_cpu_user_seconds_total", TRUE>>,
              <<"container_cpu_throttling_periods_total", FALSE>>,
              <<"container_cpu_throttled_seconds_total", TRUE>>>>
NetworkDescs == <<"container_network_receive_bytes_total",
                  "container_network_transmit_bytes_total",
                  "container_network_receive_packets_total",
                  "container_network_transmit_packets_total",
                  "container_network_receive_errors_total",
                  "container_network_transmit_errors_total",
                  "container_network_receive_dropped_total",
                  "container_network_transmit_dropped_total">>
BlockIODescs == <<"container_fs_reads_bytes_total", "container_fs_writes_bytes_total",
                  "container_fs_reads_total", "container_fs_writes_total">>
PIDsDescs == <<"container_pids_current">>
StateDescs == <<"container_last_seen", "container_start_time_seconds",
                "container_uptime_seconds", "container_info", "container_health_status",
                "container_restart_count", "container_exit_code">>
SelfDescs == <<"exporter_scrape_duration_seconds", "exporter_scrape_errors_total">>

Range(s) == {s[k] : k \in 1..Len(s)}

ResourceDescNames ==
    Range(MemoryDescs) \cup {CPUDescs[k][1] : k \in 1..Len(CPUDescs)}
        \cup Range(NetworkDescs) \cup Range(BlockIODescs) \cup Range(PIDsDescs)

\* the label names the descriptor of a measurement was declared with
DescLabelNames(desc) ==
    IF desc \in Range(NetworkDescs) THEN networkLabelNames
    ELSE IF desc \in Range(BlockIODescs) THEN blockIOLabelNames
    ELSE IF desc = "container_info" THEN infoLabelNames
    ELSE IF desc \in Range(SelfDescs) THEN collectorLabelNames
    ELSE containerLabelNames

HealthStatusToFloat(status) ==
    CASE status = <<"starting">> -> 1
      [] status = <<"healthy">> -> 2
      [] status = <<"unhealthy">> -> 3
      [] OTHER -> 0

\* SendSafe that sends whatever the number of label values is
SendUnchecked(desc, value, scaled, lv) ==
    <<[desc |-> desc, value |-> value, scaled |-> scaled, lv |-> lv]>>

\* SafeNewConstMetric followed by SendSafe: the sequence sent on ch, which is
\* empty when the number of label values differs from the descriptor's.
\* scaled tells a value multiplied by NanosecondsToSeconds.
SendSafe(desc, value, scaled, lv) ==
    IF Len(lv) # Len(DescLabelNames(desc)) THEN <<>>
    ELSE <<[desc |-> desc, value |-> value, scaled |-> scaled, lv |-> lv]>>

RECURSIVE Concat(_)
Concat(ss) == IF ss = <<>> THEN <<>> ELSE Head(ss) \o Concat(Tail(ss))

RECURSIVE SetToSeq(_)
SetToSeq(S) == IF S = {} THEN <<>> ELSE LET x == CHOOSE y \in S : TRUE
                                        IN <<x>> \o SetToSeq(S \ {x})

----------------------------------------------------------------------------
(* internal/collector/container.go: the emit functions *)

\* A Stats value carries the counters the runtime reported when it was
\* captured; s.Timestamp identifies that capture, and every numeric field of
\* the bundle is represented by it.
emitMemoryMetrics(s, lv) ==
    Concat([k \in 1..Len(MemoryDescs) |-> SendSafe(MemoryDescs[k], s.Timestamp, FALSE, lv)])

emitCPUMetrics(s, lv) ==
    Concat([k \in 1..Len(CPUDescs) |->
               SendSafe(CPUDescs[k][1], s.Timestamp, CPUDescs[k][2], lv)])

\* emitNetworkMetrics that leaves the interface out of the label values
emitNetworkMetricsNoInterface(s, lv) ==
    LET ifaces == SetToSeq(s.Networks)
    IN Concat([j \in 1..Len(ifaces) |->
                  Concat([k \in 1..Len(NetworkDescs) |->
                             SendSafe(NetworkDescs[k], s.Timestamp, FALSE, lv)])])

emitNetworkMetrics(s, lv) ==
    LET ifaces == SetToSeq(s.Networks)
    IN Concat([j \in 1..Len(ifaces) |->
                  Concat([k \in 1..Len(NetworkDescs) |->
                             SendSafe(NetworkDescs[k], s.Timestamp, FALSE,
                                      Append(lv, ifaces[j]))])])

emitBlockIOMetrics(s, lv) ==
    LET devices == SetToSeq(s.BlockIO)
    IN Concat([j \in 1..Len(devices) |->
                  Concat([k \in 1..Len(BlockIODescs) |->
                             SendSafe(BlockIODescs[k], s.Timestamp, FALSE,
                                      Append(lv, devices[j]))])])

emitPIDsMetrics(s, lv) == SendSafe(PIDsDescs[1], s.Timestamp, FALSE, lv)

\* time.Time.Format(time.RFC3339)
FormatRFC3339(t) == <<"rfc3339", ToString(t)>>

\* the slice expression ctr.ID[:12] is out of range: a run-time panic
SliceFaults(ctr) == Len(ctr.ID) < 12

\* what emitStateMetrics has sent on ch when it reaches ctr.ID[:12]
emitStateMetricsHead(ctr, lv, t) ==
    SendSafe("container_last_seen", t, FALSE, lv)
    \o (IF ctr.StartedAt # 0
        THEN SendSafe("container_start_time_seconds", ctr.StartedAt, FALSE, lv)
             \o SendSafe("container_uptime_seconds", t - ctr.StartedAt, FALSE, lv)
        ELSE <<>>)

\* StartedAt = 0 is the zero time.Time
emitStateMetrics(ctr, lv, t) ==
    SendSafe("container_last_seen", t, FALSE, lv)
    \o (IF ctr.StartedAt # 0
        THEN SendSafe("container_start_time_seconds", ctr.StartedAt, FALSE, lv)
             \o SendSafe("container_uptime_seconds", t - ctr.StartedAt, FALSE, lv)
        ELSE <<>>)
    \o SendSafe("container_info", 1, FALSE,
                lv \o <<SubSeq(ctr.ID, 1, 12), ctr.Status, ctr.Health,
                        FormatRFC3339(ctr.StartedAt)>>)
    \o SendSafe("container_health_status", HealthStatusToFloat(ctr.Health), FALSE, lv)
    \o SendSafe("container_restart_count", ctr.RestartCount, FALSE, lv)
    \o SendSafe("container_exit_code", ctr.ExitCode, FALSE, lv)

\* emitSelfMetrics sending the pair twice
emitSelfMetricsTwice(st, errors, t) ==
    SendSafe("exporter_scrape_duration_seconds", t - st, FALSE, <<<<"container">>>>)
    \o SendSafe("exporter_scrape_errors_total", errors, FALSE, <<<<"container">>>>)
    \o SendSafe("exporter_scrape_duration_seconds", t - st, FALSE, <<<<"container">>>>)
    \o SendSafe("exporter_scrape_errors_total", errors, FALSE, <<<<"container">>>>)

emitSelfMetrics(st, errors, t) ==
    SendSafe("exporter_scrape_duration_seconds", t - st, FALSE, <<<<"container">>>>)
    \o SendSafe("exporter_scrape_errors_total", errors, FALSE, <<<<"container">>>>)

\* the body of the emission loop for one result r, where lv is
\* docker.ExtractLabels(r.container).Values(): what is sent on ch, and by how
\* much scrapeErrors grows
EmitResult(r, lv, t) ==
    IF r.err # Nil THEN [out |-> <<>>, errs |-> 1]
    ELSE [out |-> emitStateMetrics(r.container, lv, t)
                  \o (IF r.stats # NilStats
                      THEN emitMemoryMetrics(r.stats[1], lv)
                           \o emitCPUMetrics(r.stats[1], lv)
                           \o emitNetworkMetrics(r.stats[1], lv)
                           \o emitBlockIOMetrics(r.stats[1], lv)
                           \o emitPIDsMetrics(r.stats[1], lv)
                      ELSE <<>>),
          errs |-> 0]

----------------------------------------------------------------------------
(* Inputs: the configurations the process is started with, the resources
   the runtime holds, and what ListContainers may return *)

CacheTTL == 1   \* metrics.cache.ttl, in clock ticks

NoFilterSet == [Labels |-> <<>>, Names |-> <<>>, Images |-> <<>>]
NoFilters == [Include |-> NoFilterSet, Exclude |-> NoFilterSet]
\* exclude: names: ["^int"]
ExcludeInternal ==
    [Include |-> NoFilterSet,
     Exclude |-> [Labels |-> <<>>, Names |-> <<Pat(TRUE, <<"i", "n", "t">>)>>,
                  Images |-> <<>>]]
\* include: images: ["("], which does not compile
BadFilters ==
    [Include |-> [Labels |-> <<>>, Names |-> <<>>, Images |-> <<BadPat>>],
     Exclude |-> NoFilterSet]
FilterInputs == {NoFilters, ExcludeInternal}

BaseConfig ==
    [Port |-> <<"9200">>, Host |-> <<"unix:///var/run/docker.sock">>,
     AuthEnabled |-> FALSE, Username |-> Empty, Password |-> Empty,
     TLSEnabled |-> FALSE, CertFile |-> Empty, KeyFile |-> Empty,
     MaxConcurrent |-> 10, Workers |-> 4,
     CacheEnabled |-> TRUE, CacheTTL |-> CacheTTL, Filters |-> NoFilters]

\* configurations Validate or NewFilter rejects
BadConfigInputs ==
         {[BaseConfig EXCEPT !.Port = Empty], [BaseConfig EXCEPT !.Host = Empty],
          [BaseConfig EXCEPT !.AuthEnabled = TRUE],
          [BaseConfig EXCEPT !.TLSEnabled = TRUE, !.CertFile = <<"c">>],
          [BaseConfig EXCEPT !.Workers = 0],
          [BaseConfig EXCEPT !.Filters = BadFilters]}

ConfigInputs ==
    {[BaseConfig EXCEPT !.MaxConcurrent = m, !.CacheEnabled = e, !.Filters = f] :
        m \in 0..MaxConcurrentBound, e \in BOOLEAN, f \in FilterInputs}
    \cup BadConfigInputs

\* the default cache and filter settings, with every max_concurrent
WideConfigInputs ==
    {[BaseConfig EXCEPT !.MaxConcurrent = m] : m \in 0..MaxConcurrentBound}
    \cup BadConfigInputs

\* the resources the runtime holds: two where several scrapes are followed,
\* three where one scrape is
Resources == {1, 2}
WideResources == {1, 2, 3}
\* a runtime that hands out an ID shorter than twelve characters
ShortIDResources == {1, 4}

HexTail == <<"0", "0", "0", "0", "0", "0", "0", "0", "0", "0">>

\* identity of the k-th resource of the runtime
Identity(k) ==
    CASE k = 1 -> [ID |-> <<"a", "1">> \o HexTail \o <<"f">>,
                   Name |-> <<"w", "e", "b">>, Image |-> <<"n", "g", "x">>,
                   Labels |-> [x \in {LabelComposeService} |-> <<"s", "v", "c">>],
                   Health |-> <<"healthy">>, StartedAt |-> 1, RestartCount |-> 0,
                   Networks |-> {<<"eth0">>}, BlockIO |-> {<<"8:0">>}]
      [] k = 2 -> [ID |-> <<"b", "2">> \o HexTail,
                   Name |-> <<"i", "n", "t", "-", "p", "x">>, Image |-> <<"e", "n", "v">>,
                   Labels |-> <<>>,
                   Health |-> Empty, StartedAt |-> 1, RestartCount |-> 1,
                   Networks |-> {}, BlockIO |-> {}]
      [] k = 4 -> [ID |-> <<"a", "b", "c">>,
                   Name |-> <<"j", "o", "b">>, Image |-> <<"s", "h">>,
                   Labels |-> <<>>,
                   Health |-> Empty, StartedAt |-> 1, RestartCount |-> 0,
                   Networks |-> {}, BlockIO |-> {}]
      [] OTHER -> [ID |-> <<"c", "3">> \o HexTail \o <<"e", "e">>,
                   Name |-> <<"d", " ", "b">>, Image |-> <<"r", "e", "d", ":", "7">>,
                   Labels |-> <<>>,
                   Health |-> <<"starting">>, StartedAt |-> 0, RestartCount |-> 0,
                   Networks |-> {<<"eth0">>}, BlockIO |-> {}]

\* docker.Container as ListContainers builds it for resource k in state st
ContainerOf(k, st) ==
    LET r == Identity(k)
    IN [ID |-> r.ID, Name |-> r.Name, Image |-> r.Image, Labels |-> r.Labels,
        Status |-> IF st = "running" THEN <<"Up">> ELSE <<"Exited">>,
        State |-> st, Health |-> r.Health, StartedAt |-> r.StartedAt,
        RestartCount |-> r.RestartCount,
        ExitCode |-> IF st = "running" THEN 0 ELSE 137]

\* docker.Stats as GetContainerStats returns it for the resource with this ID at time t
StatsOf(id, t) ==
    LET r == Identity(CHOOSE k \in WideResources \cup ShortIDResources : Identity(k).ID = id)
    IN [ContainerID |-> id, Name |-> r.Name, Image |-> r.Image, Labels |-> r.Labels,
        Networks |-> r.Networks, BlockIO |-> r.BlockIO, Timestamp |-> t]

LifeStates == {"running", "exited"}

RECURSIVE Ascending(_)
Ascending(S) == IF S = {} THEN <<>>
                ELSE LET m == CHOOSE x \in S : \A y \in S : x <= y
                     IN <<m>> \o Ascending(S \ {m})

\* the lists ListContainers returns: any resources of the runtime, each in any state
ListOutcomes(R) ==
    UNION {{[j \in 1..Len(Ascending(S)) |-> ContainerOf(Ascending(S)[j], st[Ascending(S)[j]])] :
               st \in [S -> LifeStates]} : S \in SUBSET R}

ZeroContainer ==
    [ID |-> Empty, Name |-> Empty, Image |-> Empty, Labels |-> <<>>, Status |-> Empty,
     State |-> "", Health |-> Empty, StartedAt |-> 0, RestartCount |-> 0, ExitCode |-> 0]

\* the zero value of the local type result
ZeroResult == [container |-> ZeroContainer, stats |-> NilStats, err |-> Nil]

\* c.filter, built once by NewFilter
TheFilter == NewFilter(cfg.Filters).f

\* a filter step that keeps every listed container
FilterListAll(f, cs) == cs

RECURSIVE FilterList(_, _)
FilterList(f, cs) ==
    IF cs = <<>> THEN <<>>
    ELSE (IF Match(f, Head(cs)) THEN <<Head(cs)>> ELSE <<>>) \o FilterList(f, Tail(cs))

----------------------------------------------------------------------------
(* State machine *)

\* a process that has made no call yet
Threads == 1..MaxThreads

\* the zero cacheEntry and ok = false, as a map read of an absent key gives
NoEntry == [ok |-> FALSE, stats |-> NilStats, timestamp |-> 0]

\* a goroutine that is in no StatsCache method
IdleThread ==
    [pc |-> "idle", op |-> "none", id |-> <<>>, stats |-> NilStats, at |-> 0,
     entry |-> NoEntry, raced |-> FALSE]

Collects == 1..MaxCollects

\* a Collect call that has not been made yet
IdleCollect ==
    [pc |-> "idle", start |-> 0, filtered |-> <<>>, idx |-> 1, results |-> <<>>,
     worker |-> <<>>, sem |-> 0, wg |-> 0, scrapeErrors |-> 0, emitted |-> <<>>]

Fresh ==
    /\ now = 1
    /\ cycle = 0
    /\ start = 0
    /\ containers = <<>>
    /\ filtered = <<>>
    /\ idx = 1
    /\ results = <<>>
    /\ worker = <<>>
    /\ sem = 0
    /\ wg = 0
    /\ scrapeErrors = 0
    /\ emitNow = 0
    /\ eidx = 1
    /\ emitted = <<>>
    /\ entries = <<>>
    /\ hits = 0
    /\ misses = 0
    /\ listCalls = 0
    /\ getCalls = <<>>
    /\ fetchCalls = <<>>
    /\ setCalls = 0
    /\ evictCalls = 0
    /\ listErr = FALSE
    /\ lookup = <<>>
    /\ cache0 = [entries |-> <<>>, hits |-> 0, misses |-> 0]
    /\ visited = {}
    /\ last = [op |-> "none"]
    /\ calls = [Get |-> 0, Set |-> 0, Evict |-> 0, EvictStale |-> 0, latest |-> <<>>,
                stored |-> {}, Send |-> 0]
    /\ thr = [t \in Threads |-> IdleThread]
    /\ mu = [readers |-> {}, writer |-> 0]
    /\ cyc = [k \in Collects |-> IdleCollect]
    /\ heap = <<>>
    /\ descIDs = {}

InitWith(n, R, C) ==
    /\ scrapes = n
    /\ runtime = R
    /\ cfg \in C
    /\ pc = "load"
    /\ Fresh

Init == InitWith(MaxCycles, Resources, ConfigInputs)

\* two scrapes of a runtime that holds three resources
WideInit == InitWith(2, WideResources, WideConfigInputs)

\* main: config.Load (which ends with Validate) and docker.NewFilter; either
\* failing ends the process before any collector exists
Load ==
    /\ pc = "load"
    /\ pc' = IF Validate(cfg) = Nil /\ NewFilter(cfg.Filters).err = Nil
             THEN "idle" ELSE "rejected"
    /\ UNCHANGED <<cfg, now, cycle, start, containers, filtered, idx, results, worker,
                   sem, wg, scrapeErrors, emitNow, eidx, emitted, entries, hits,
                   misses, listCalls, getCalls, fetchCalls, setCalls, evictCalls,
                   listErr, lookup, cache0, visited, runtime, scrapes, last, calls,
                   thr, mu, cyc, heap, descIDs>>

\* the clock advances by one tick. A tick is long against the in-memory work
\* of a cycle: it passes between scrapes, or while a call to the runtime
\* (ListContainers, GetContainerStats) is in flight
Tick ==
    /\ \/ pc = "idle"
       \/ pc = "listing"
       \/ \E i \in DOMAIN worker : worker[i] = "fetching"
    /\ now < MaxTime
    /\ now' = now + 1
    /\ UNCHANGED <<cfg, pc, cycle, start, containers, filtered, idx, results, worker,
                   sem, wg, scrapeErrors, emitNow, eidx, emitted, entries, hits,
                   misses, listCalls, getCalls, fetchCalls, setCalls, evictCalls,
                   listErr, lookup, cache0, visited, runtime, scrapes, last, calls,
                   thr, mu, cyc, heap, descIDs>>

\* a Collect that goes on counting in the error tally of the call before
CollectStartCarryErrors ==
    /\ pc = "idle"
    /\ cycle < scrapes
    /\ cycle' = cycle + 1
    /\ pc' = "listing"
    /\ start' = now
    /\ containers' = <<>>
    /\ filtered' = <<>>
    /\ idx' = 1
    /\ results' = <<>>
    /\ worker' = <<>>
    /\ sem' = 0
    /\ wg' = 0
    /\ emitNow' = 0
    /\ eidx' = 1
    /\ emitted' = <<>>
    /\ listCalls' = 1
    /\ getCalls' = <<>>
    /\ fetchCalls' = <<>>
    /\ setCalls' = 0
    /\ evictCalls' = 0
    /\ listErr' = FALSE
    /\ lookup' = <<>>
    /\ cache0' = [entries |-> entries, hits |-> hits, misses |-> misses]
    /\ visited' = {"listing"}
    /\ UNCHANGED <<cfg, now, scrapeErrors, entries, hits, misses, runtime, scrapes,
                   last, calls, thr, mu, cyc, heap, descIDs>>

\* Collect is called: start := time.Now(), scrapeErrors := 0, and
\* c.client.ListContainers(ctx) is called
CollectStart ==
    /\ pc = "idle"
    /\ cycle < scrapes
    /\ cycle' = cycle + 1
    /\ pc' = "listing"
    /\ start' = now
    /\ scrapeErrors' = 0
    /\ containers' = <<>>
    /\ filtered' = <<>>
    /\ idx' = 1
    /\ results' = <<>>
    /\ worker' = <<>>
    /\ sem' = 0
    /\ wg' = 0
    /\ emitNow' = 0
    /\ eidx' = 1
    /\ emitted' = <<>>
    /\ listCalls' = 1
    /\ getCalls' = <<>>
    /\ fetchCalls' = <<>>
    /\ setCalls' = 0
    /\ evictCalls' = 0
    /\ listErr' = FALSE
    /\ lookup' = <<>>
    /\ cache0' = [entries |-> entries, hits |-> hits, misses |-> misses]
    /\ visited' = {"listing"}
    /\ UNCHANGED <<cfg, now, entries, hits, misses, runtime, scrapes, last, calls, thr,
                   mu, cyc, heap, descIDs>>

\* ListFails without scrapeErrors++
ListFailsUncounted ==
    /\ pc = "listing"
    /\ emitted' = emitted \o emitSelfMetrics(start, scrapeErrors, now)
    /\ pc' = "done"
    /\ listErr' = TRUE
    /\ visited' = visited \cup {"done"}
    /\ UNCHANGED <<cfg, now, cycle, start, containers, filtered, idx, results, worker,
                   sem, wg, scrapeErrors, emitNow, eidx, entries, hits, misses,
                   listCalls, getCalls, fetchCalls, setCalls, evictCalls, lookup,
                   cache0, runtime, scrapes, last, calls, thr, mu, cyc, heap, descIDs>>

\* ListContainers returns an error: count it, emit the self metrics, return
ListFails ==
    /\ pc = "listing"
    /\ scrapeErrors' = scrapeErrors + 1
    /\ emitted' = emitted \o emitSelfMetrics(start, scrapeErrors + 1, now)
    /\ pc' = "done"
    /\ listErr' = TRUE
    /\ visited' = visited \cup {"done"}
    /\ UNCHANGED <<cfg, now, cycle, start, containers, filtered, idx, results, worker,
                   sem, wg, emitNow, eidx, entries, hits, misses, listCalls, getCalls,
                   fetchCalls, setCalls, evictCalls, lookup, cache0, runtime, scrapes,
                   last, calls, thr, mu, cyc, heap, descIDs>>

\* ListContainers returns cs: apply the filter, make results, sem and wg
ListReturns ==
    /\ pc = "listing"
    /\ \E cs \in ListOutcomes(runtime) :
          /\ containers' = cs
          /\ filtered' = FilterList(TheFilter, cs)
          /\ results' = [j \in 1..Len(FilterList(TheFilter, cs)) |-> ZeroResult]
          /\ worker' = [j \in 1..Len(FilterList(TheFilter, cs)) |-> "none"]
          /\ getCalls' = [j \in 1..Len(FilterList(TheFilter, cs)) |-> 0]
          /\ lookup' = [j \in 1..Len(FilterList(TheFilter, cs)) |-> "none"]
          /\ fetchCalls' = [j \in 1..Len(FilterList(TheFilter, cs)) |-> 0]
    /\ idx' = 1
    /\ sem' = 0
    /\ wg' = 0
    /\ pc' = "dispatch"
    /\ visited' = visited \cup {"filtering", "dispatch"}
    /\ UNCHANGED <<cfg, now, cycle, start, scrapeErrors, emitNow, eidx, emitted,
                   entries, hits, misses, listCalls, setCalls, evictCalls, listErr,
                   cache0, runtime, scrapes, last, calls, thr, mu, cyc, heap, descIDs>>

Bump(f, i) == [f EXCEPT ![i] = @ + 1]

\* a dispatch loop without the state check
IsRunningAny(ctr) == TRUE

\* ctr.State != "running" sends a container to state-only emission
IsRunning(ctr) == ctr.State = "running"

\* dispatch loop, ctr.State != "running": the slot gets the container only
DispatchNotRunning ==
    /\ pc = "dispatch"
    /\ idx <= Len(filtered)
    /\ ~IsRunning(filtered[idx])
    /\ results' = [results EXCEPT ![idx] = [container |-> filtered[idx],
                                           stats |-> NilStats, err |-> Nil]]
    /\ idx' = idx + 1
    /\ UNCHANGED <<cfg, pc, now, cycle, start, containers, filtered, worker, sem, wg,
                   scrapeErrors, emitNow, eidx, emitted, entries, hits, misses,
                   listCalls, getCalls, fetchCalls, setCalls, evictCalls, listErr,
                   lookup, cache0, visited, runtime, scrapes, last, calls, thr, mu,
                   cyc, heap, descIDs>>

\* a cache hit that keeps the cached stats and still goes on to fetch
DispatchCacheHitRefetch ==
    /\ pc = "dispatch"
    /\ idx <= Len(filtered)
    /\ IsRunning(filtered[idx])
    /\ LET got == Get(entries, cfg.CacheEnabled, cfg.CacheTTL, now, filtered[idx].ID)
       IN /\ got.ok
          /\ results' = [results EXCEPT ![idx] = [container |-> filtered[idx],
                                                 stats |-> got.stats, err |-> Nil]]
    /\ hits' = hits + 1
    /\ getCalls' = Bump(getCalls, idx)
    /\ lookup' = [lookup EXCEPT ![idx] = "hit"]
    /\ wg' = wg + 1
    /\ pc' = "acquire"
    /\ UNCHANGED <<cfg, now, cycle, start, containers, filtered, idx, worker, sem,
                   scrapeErrors, emitNow, eidx, emitted, entries, misses, listCalls,
                   fetchCalls, setCalls, evictCalls, listErr, cache0, visited, runtime,
                   scrapes, last, calls, thr, mu, cyc, heap, descIDs>>

\* dispatch loop, running container, c.cache.Get(ctr.ID) is a hit
DispatchCacheHit ==
    /\ pc = "dispatch"
    /\ idx <= Len(filtered)
    /\ IsRunning(filtered[idx])
    /\ LET got == Get(entries, cfg.CacheEnabled, cfg.CacheTTL, now, filtered[idx].ID)
       IN /\ got.ok
          /\ results' = [results EXCEPT ![idx] = [container |-> filtered[idx],
                                                 stats |-> got.stats, err |-> Nil]]
    /\ hits' = hits + 1
    /\ getCalls' = Bump(getCalls, idx)
    /\ lookup' = [lookup EXCEPT ![idx] = "hit"]
    /\ idx' = idx + 1
    /\ UNCHANGED <<cfg, pc, now, cycle, start, containers, filtered, worker, sem, wg,
                   scrapeErrors, emitNow, eidx, emitted, entries, misses, listCalls,
                   fetchCalls, setCalls, evictCalls, listErr, cache0, visited, runtime,
                   scrapes, last, calls, thr, mu, cyc, heap, descIDs>>

\* dispatch loop, running container, c.cache.Get(ctr.ID) is a miss: wg.Add(1),
\* and the loop is about to send on sem
DispatchCacheMiss ==
    /\ pc = "dispatch"
    /\ idx <= Len(filtered)
    /\ IsRunning(filtered[idx])
    /\ ~Get(entries, cfg.CacheEnabled, cfg.CacheTTL, now, filtered[idx].ID).ok
    /\ misses' = misses + 1
    /\ getCalls' = Bump(getCalls, idx)
    /\ lookup' = [lookup EXCEPT ![idx] = "miss"]
    /\ wg' = wg + 1
    /\ pc' = "acquire"
    /\ UNCHANGED <<cfg, now, cycle, start, containers, filtered, idx, results, worker,
                   sem, scrapeErrors, emitNow, eidx, emitted, entries, hits, listCalls,
                   fetchCalls, setCalls, evictCalls, listErr, cache0, visited, runtime,
                   scrapes, last, calls, thr, mu, cyc, heap, descIDs>>

\* a send that never waits
CanSendAlways(n, capacity) == TRUE

\* a send on the buffered channel sem proceeds when the buffer has room
CanSend(n, capacity) == n < capacity

\* sem <- struct{}{} succeeds; the goroutine for slot idx is started and
\* calls c.client.GetContainerStats(ctx, container.ID)
AcquireSlot ==
    /\ pc = "acquire"
    /\ CanSend(sem, cfg.MaxConcurrent)
    /\ sem' = sem + 1
    /\ worker' = [worker EXCEPT ![idx] = "fetching"]
    /\ fetchCalls' = Bump(fetchCalls, idx)
    /\ idx' = idx + 1
    /\ pc' = "dispatch"
    /\ UNCHANGED <<cfg, now, cycle, start, containers, filtered, results, wg,
                   scrapeErrors, emitNow, eidx, emitted, entries, hits, misses,
                   listCalls, getCalls, setCalls, evictCalls, listErr, lookup, cache0,
                   visited, runtime, scrapes, last, calls, thr, mu, cyc, heap, descIDs>>

\* the dispatch loop is over: wg.Wait() is called
DispatchEnd ==
    /\ pc = "dispatch"
    /\ idx > Len(filtered)
    /\ pc' = "await"
    /\ visited' = visited \cup {"await"}
    /\ UNCHANGED <<cfg, now, cycle, start, containers, filtered, idx, results, worker,
                   sem, wg, scrapeErrors, emitNow, eidx, emitted, entries, hits,
                   misses, listCalls, getCalls, fetchCalls, setCalls, evictCalls,
                   listErr, lookup, cache0, runtime, scrapes, last, calls, thr, mu,
                   cyc, heap, descIDs>>

\* goroutines that all write the first slot, as goroutines sharing one index
\* variable would
FetchReturnsSharedSlot(i) ==
    /\ worker[i] = "fetching"
    /\ LET stats == <<StatsOf(filtered[i].ID, now)>>
       IN /\ results' = [results EXCEPT ![1] = [container |-> filtered[i],
                                               stats |-> stats, err |-> Nil]]
          /\ entries' = Set(entries, cfg.CacheEnabled, now, filtered[i].ID, stats)
    /\ setCalls' = setCalls + 1
    /\ worker' = [worker EXCEPT ![i] = "returned"]
    /\ UNCHANGED <<cfg, pc, now, cycle, start, containers, filtered, idx, sem, wg,
                   scrapeErrors, emitNow, eidx, emitted, hits, misses, listCalls,
                   getCalls, fetchCalls, evictCalls, listErr, lookup, cache0, visited,
                   runtime, scrapes, last, calls, thr, mu, cyc, heap, descIDs>>

\* a goroutine that writes its slot and never calls c.cache.Set
FetchReturnsUnset(i) ==
    /\ worker[i] = "fetching"
    /\ LET stats == <<StatsOf(filtered[i].ID, now)>>
       IN /\ results' = [results EXCEPT ![i] = [container |-> filtered[i],
                                               stats |-> stats, err |-> Nil]]
    /\ worker' = [worker EXCEPT ![i] = "returned"]
    /\ UNCHANGED <<cfg, pc, now, cycle, start, containers, filtered, idx, sem, wg,
                   scrapeErrors, emitNow, eidx, emitted, entries, hits, misses,
                   listCalls, getCalls, fetchCalls, setCalls, evictCalls, listErr,
                   lookup, cache0, visited, runtime, scrapes, last, calls, thr, mu,
                   cyc, heap, descIDs>>

\* GetContainerStats returns stats for slot i: the goroutine writes the slot
\* and calls c.cache.Set
FetchReturns(i) ==
    /\ worker[i] = "fetching"
    /\ LET stats == <<StatsOf(filtered[i].ID, now)>>
       IN /\ results' = [results EXCEPT ![i] = [container |-> filtered[i],
                                               stats |-> stats, err |-> Nil]]
          /\ entries' = Set(entries, cfg.CacheEnabled, now, filtered[i].ID, stats)
    /\ setCalls' = setCalls + 1
    /\ worker' = [worker EXCEPT ![i] = "returned"]
    /\ UNCHANGED <<cfg, pc, now, cycle, start, containers, filtered, idx, sem, wg,
                   scrapeErrors, emitNow, eidx, emitted, hits, misses, listCalls,
                   getCalls, fetchCalls, evictCalls, listErr, lookup, cache0, visited,
                   runtime, scrapes, last, calls, thr, mu, cyc, heap, descIDs>>

\* a goroutine that calls GetContainerStats a second time when the first
\* call returned an error
FetchFailsRetry(i) ==
    /\ worker[i] = "fetching"
    /\ fetchCalls[i] < 2
    /\ fetchCalls' = Bump(fetchCalls, i)
    /\ UNCHANGED <<cfg, pc, now, cycle, start, containers, filtered, idx, results,
                   worker, sem, wg, scrapeErrors, emitNow, eidx, emitted, entries,
                   hits, misses, listCalls, getCalls, setCalls, evictCalls, listErr,
                   lookup, cache0, visited, runtime, scrapes, last, calls, thr, mu,
                   cyc, heap, descIDs>>

\* GetContainerStats returns an error for slot i (timeout, not found, decode
\* error): the goroutine writes the slot, the cache is not touched
FetchFails(i) ==
    /\ worker[i] = "fetching"
    /\ results' = [results EXCEPT ![i] = [container |-> filtered[i],
                                         stats |-> NilStats, err |-> "error"]]
    /\ worker' = [worker EXCEPT ![i] = "returned"]
    /\ UNCHANGED <<cfg, pc, now, cycle, start, containers, filtered, idx, sem, wg,
                   scrapeErrors, emitNow, eidx, emitted, entries, hits, misses,
                   listCalls, getCalls, fetchCalls, setCalls, evictCalls, listErr,
                   lookup, cache0, visited, runtime, scrapes, last, calls, thr, mu,
                   cyc, heap, descIDs>>

\* a goroutine that gives its slot back only when its fetch succeeded
WorkerReleaseOnSuccess(i) ==
    /\ worker[i] = "returned"
    /\ sem' = IF results[i].err = Nil THEN sem - 1 ELSE sem
    /\ worker' = [worker EXCEPT ![i] = "released"]
    /\ UNCHANGED <<cfg, pc, now, cycle, start, containers, filtered, idx, results, wg,
                   scrapeErrors, emitNow, eidx, emitted, entries, hits, misses,
                   listCalls, getCalls, fetchCalls, setCalls, evictCalls, listErr,
                   lookup, cache0, visited, runtime, scrapes, last, calls, thr, mu,
                   cyc, heap, descIDs>>

\* deferred func() { <-sem }(): the goroutine releases its slot
WorkerRelease(i) ==
    /\ worker[i] = "returned"
    /\ sem' = sem - 1
    /\ worker' = [worker EXCEPT ![i] = "released"]
    /\ UNCHANGED <<cfg, pc, now, cycle, start, containers, filtered, idx, results, wg,
                   scrapeErrors, emitNow, eidx, emitted, entries, hits, misses,
                   listCalls, getCalls, fetchCalls, setCalls, evictCalls, listErr,
                   lookup, cache0, visited, runtime, scrapes, last, calls, thr, mu,
                   cyc, heap, descIDs>>

\* deferred wg.Done(): the goroutine ends
WorkerDone(i) ==
    /\ worker[i] = "released"
    /\ wg' = wg - 1
    /\ worker' = [worker EXCEPT ![i] = "done"]
    /\ UNCHANGED <<cfg, pc, now, cycle, start, containers, filtered, idx, results, sem,
                   scrapeErrors, emitNow, eidx, emitted, entries, hits, misses,
                   listCalls, getCalls, fetchCalls, setCalls, evictCalls, listErr,
                   lookup, cache0, visited, runtime, scrapes, last, calls, thr, mu,
                   cyc, heap, descIDs>>

\* a wg.Wait() that returns with goroutines still running
WaitReturnsEarly ==
    /\ pc = "await"
    /\ emitNow' = now
    /\ eidx' = 1
    /\ pc' = "emit"
    /\ visited' = visited \cup {"emit"}
    /\ UNCHANGED <<cfg, now, cycle, start, containers, filtered, idx, results, worker,
                   sem, wg, scrapeErrors, emitted, entries, hits, misses, listCalls,
                   getCalls, fetchCalls, setCalls, evictCalls, listErr, lookup, cache0,
                   runtime, scrapes, last, calls, thr, mu, cyc, heap, descIDs>>

\* wg.Wait() returns when the counter is zero; now := time.Now()
WaitReturns ==
    /\ pc = "await"
    /\ wg = 0
    /\ emitNow' = now
    /\ eidx' = 1
    /\ pc' = "emit"
    /\ visited' = visited \cup {"emit"}
    /\ UNCHANGED <<cfg, now, cycle, start, containers, filtered, idx, results, worker,
                   sem, wg, scrapeErrors, emitted, entries, hits, misses, listCalls,
                   getCalls, fetchCalls, setCalls, evictCalls, listErr, lookup, cache0,
                   runtime, scrapes, last, calls, thr, mu, cyc, heap, descIDs>>

\* an emission loop that stops at the first failed result
EmitOneAbort ==
    /\ pc = "emit"
    /\ eidx <= Len(results)
    /\ results[eidx].err # Nil \/ ~SliceFaults(results[eidx].container)
    /\ \E lv \in {Values(ExtractLabels(results[eidx].container))} :
          LET e == EmitResult(results[eidx], lv, emitNow)
          IN /\ emitted' = emitted \o e.out
             /\ scrapeErrors' = scrapeErrors + e.errs
             /\ eidx' = IF e.errs > 0 THEN Len(results) + 1 ELSE eidx + 1
    /\ UNCHANGED <<cfg, pc, now, cycle, start, containers, filtered, idx, results,
                   worker, sem, wg, emitNow, entries, hits, misses, listCalls,
                   getCalls, fetchCalls, setCalls, evictCalls, listErr, lookup, cache0,
                   visited, runtime, scrapes, last, calls, thr, mu, cyc, heap, descIDs>>

\* an emission loop that goes through results from the last slot to the first
EmitOneBackwards ==
    /\ pc = "emit"
    /\ eidx <= Len(results)
    /\ \E r \in {results[Len(results) + 1 - eidx]} :
          /\ r.err # Nil \/ ~SliceFaults(r.container)
          /\ \E lv \in {Values(ExtractLabels(r.container))} :
                LET e == EmitResult(r, lv, emitNow)
                IN /\ emitted' = emitted \o e.out
                   /\ scrapeErrors' = scrapeErrors + e.errs
    /\ eidx' = eidx + 1
    /\ UNCHANGED <<cfg, pc, now, cycle, start, containers, filtered, idx, results,
                   worker, sem, wg, emitNow, entries, hits, misses, listCalls,
                   getCalls, fetchCalls, setCalls, evictCalls, listErr, lookup, cache0,
                   visited, runtime, scrapes, last, calls, thr, mu, cyc, heap, descIDs>>

\* one iteration of the emission loop
EmitOne ==
    /\ pc = "emit"
    /\ eidx <= Len(results)
    /\ results[eidx].err # Nil \/ ~SliceFaults(results[eidx].container)
    /\ \E lv \in {Values(ExtractLabels(results[eidx].container))} :
          LET e == EmitResult(results[eidx], lv, emitNow)
          IN /\ emitted' = emitted \o e.out
             /\ scrapeErrors' = scrapeErrors + e.errs
    /\ eidx' = eidx + 1
    /\ UNCHANGED <<cfg, pc, now, cycle, start, containers, filtered, idx, results,
                   worker, sem, wg, emitNow, entries, hits, misses, listCalls,
                   getCalls, fetchCalls, setCalls, evictCalls, listErr, lookup, cache0,
                   visited, runtime, scrapes, last, calls, thr, mu, cyc, heap, descIDs>>

\* the end of the emission loop without the call of EvictStale
EvictStaleSkipped ==
    /\ pc = "emit"
    /\ eidx > Len(results)
    /\ pc' = "self"
    /\ UNCHANGED <<cfg, now, cycle, start, containers, filtered, idx, results, worker,
                   sem, wg, scrapeErrors, emitNow, eidx, emitted, entries, hits,
                   misses, listCalls, getCalls, fetchCalls, setCalls, evictCalls,
                   listErr, lookup, cache0, visited, runtime, scrapes, last, calls,
                   thr, mu, cyc, heap, descIDs>>

\* an iteration of the emission loop that panics inside emitStateMetrics: the
\* panic is not recovered, Collect never returns
EmitFaults ==
    /\ pc = "emit"
    /\ eidx <= Len(results)
    /\ results[eidx].err = Nil /\ SliceFaults(results[eidx].container)
    /\ \E lv \in {Values(ExtractLabels(results[eidx].container))} :
          emitted' = emitted \o emitStateMetricsHead(results[eidx].container, lv, emitNow)
    /\ pc' = "panic"
    /\ UNCHANGED <<cfg, now, cycle, start, containers, filtered, idx, results, worker,
                   sem, wg, scrapeErrors, emitNow, eidx, entries, hits, misses,
                   listCalls, getCalls, fetchCalls, setCalls, evictCalls, listErr,
                   lookup, cache0, visited, runtime, scrapes, last, calls, thr, mu,
                   cyc, heap, descIDs>>

\* the emission loop is over: c.cache.EvictStale()
EvictStaleStep ==
    /\ pc = "emit"
    /\ eidx > Len(results)
    /\ entries' = EvictStale(entries, cfg.CacheTTL, now)
    /\ evictCalls' = evictCalls + 1
    /\ pc' = "self"
    /\ UNCHANGED <<cfg, now, cycle, start, containers, filtered, idx, results, worker,
                   sem, wg, scrapeErrors, emitNow, eidx, emitted, hits, misses,
                   listCalls, getCalls, fetchCalls, setCalls, listErr, lookup, cache0,
                   visited, runtime, scrapes, last, calls, thr, mu, cyc, heap, descIDs>>

\* c.emitSelfMetrics(ch, start, scrapeErrors), and Collect returns
EmitSelf ==
    /\ pc = "self"
    /\ emitted' = emitted \o emitSelfMetrics(start, scrapeErrors, now)
    /\ pc' = "done"
    /\ visited' = visited \cup {"done"}
    /\ UNCHANGED <<cfg, now, cycle, start, containers, filtered, idx, results, worker,
                   sem, wg, scrapeErrors, emitNow, eidx, entries, hits, misses,
                   listCalls, getCalls, fetchCalls, setCalls, evictCalls, listErr,
                   lookup, cache0, runtime, scrapes, last, calls, thr, mu, cyc, heap,
                   descIDs>>

\* the error count a finished Collect call has sent on ch
ErrorsEmitted == emitted[Len(emitted)].value

\* CollectReturn, with the observer noting how the call ended: whether its
\* List failed, its error tally, and the highest error count sent so far
CollectReturnObserved ==
    /\ pc = "done"
    /\ pc' = "idle"
    /\ last' = [op |-> "Collect", listErr |-> listErr, errors |-> scrapeErrors,
                highest |-> IF last.op = "Collect" /\ last.highest > ErrorsEmitted
                            THEN last.highest ELSE ErrorsEmitted]
    /\ UNCHANGED <<cfg, now, cycle, start, containers, filtered, idx, results, worker,
                   sem, wg, scrapeErrors, emitNow, eidx, emitted, entries, hits,
                   misses, listCalls, getCalls, fetchCalls, setCalls, evictCalls,
                   listErr, lookup, cache0, visited, runtime, scrapes, calls, thr, mu,
                   cyc, heap, descIDs>>

\* the scrape is answered; the collector waits for the next one
CollectReturn ==
    /\ pc = "done"
    /\ pc' = "idle"
    /\ UNCHANGED <<cfg, now, cycle, start, containers, filtered, idx, results, worker,
                   sem, wg, scrapeErrors, emitNow, eidx, emitted, entries, hits,
                   misses, listCalls, getCalls, fetchCalls, setCalls, evictCalls,
                   listErr, lookup, cache0, visited, runtime, scrapes, last, calls,
                   thr, mu, cyc, heap, descIDs>>

Slots == 1..Len(filtered)

WorkerStep ==
    \E i \in Slots : FetchReturns(i) \/ FetchFails(i) \/ WorkerRelease(i) \/ WorkerDone(i)

\* every step of a Collect call once it has been started
CycleStep ==
    \/ ListFails \/ ListReturns
    \/ DispatchNotRunning \/ DispatchCacheHit \/ DispatchCacheMiss \/ AcquireSlot
    \/ DispatchEnd \/ WorkerStep \/ WaitReturns \/ EmitOne \/ EvictStaleStep
    \/ EmitSelf \/ CollectReturn

Next == Load \/ Tick \/ CollectStart \/ CycleStep

Spec == Init /\ [][Next]_vars

WideSpec == WideInit /\ [][Next]_vars

\* two scrapes of a runtime one of whose resources has a short ID
ShortIDInit == InitWith(2, ShortIDResources, WideConfigInputs)

ShortIDNext == Next \/ EmitFaults

ShortIDSpec == ShortIDInit /\ [][ShortIDNext]_vars

\* two scrapes of a runtime that holds two resources, under the default cache
\* and filter settings and every max_concurrent
FairInit == InitWith(2, Resources, WideConfigInputs)

\* every call returns and every goroutine is scheduled
FairSpec == FairInit /\ [][Next]_vars /\ WF_vars(CycleStep)

\* the scrapes of Spec followed one after the other, the observer noting how
\* each ended
TallyNext ==
    \/ Load \/ Tick \/ CollectStart
    \/ ListFails \/ ListReturns
    \/ DispatchNotRunning \/ DispatchCacheHit \/ DispatchCacheMiss \/ AcquireSlot
    \/ DispatchEnd \/ WorkerStep \/ WaitReturns \/ EmitOne \/ EvictStaleStep
    \/ EmitSelf \/ CollectReturnObserved

TallySpec == FairInit /\ [][TallyNext]_vars

----------------------------------------------------------------------------
(* The Filter on its own: NewFilter on a configuration, then Match on
   containers *)

\* include/exclude label rules: "com.docker.compose.service=svc", and the
\* key-only rule "com.docker.compose.service"
LabelRuleInputs ==
    {<<>>, <<LabelComposeService \o <<"=", "s", "v", "c">>>>, <<LabelComposeService>>}
\* name patterns: none, "^int", "e", and a text that does not compile
NameRuleInputs ==
    {<<>>, <<Pat(TRUE, <<"i", "n", "t">>)>>, <<Pat(FALSE, <<"e">>)>>, <<BadPat>>}
\* image patterns: none, "n", and a good pattern followed by a bad one
ImageRuleInputs == {<<>>, <<Pat(FALSE, <<"n">>)>>, <<Pat(FALSE, <<"n">>), BadPat>>}

FilterSetInputs ==
    {[Labels |-> l, Names |-> n, Images |-> i] :
        l \in LabelRuleInputs, n \in NameRuleInputs, i \in ImageRuleInputs}

FilterConfigInputs ==
    {[BaseConfig EXCEPT !.Filters = [Include |-> inc, Exclude |-> exc]] :
        inc \in FilterSetInputs, exc \in FilterSetInputs}

\* the containers Match is called on
MatchInputs == {ContainerOf(k, "running") : k \in WideResources}

FilterInit ==
    /\ cfg \in FilterConfigInputs
    /\ pc = "new-filter"
    /\ scrapes = 0
    /\ runtime = WideResources
    /\ Fresh

\* docker.NewFilter(cfg.Filters) is called
NewFilterCall ==
    /\ pc = "new-filter"
    /\ LET r == NewFilter(cfg.Filters)
       IN /\ last' = [op |-> "NewFilter", err |-> r.err, f |-> r.f]
          /\ pc' = IF r.err = Nil THEN "filter-built" ELSE "rejected"
    /\ UNCHANGED <<cfg, now, cycle, start, containers, filtered, idx, results, worker,
                   sem, wg, scrapeErrors, emitNow, eidx, emitted, entries, hits,
                   misses, listCalls, getCalls, fetchCalls, setCalls, evictCalls,
                   listErr, lookup, cache0, visited, runtime, scrapes, calls, thr, mu,
                   cyc, heap, descIDs>>

\* f.Match(c) is called on the constructed Filter
MatchCall ==
    /\ pc = "filter-built"
    /\ \E c \in MatchInputs :
          last' = [op |-> "Match", c |-> c, out |-> Match(TheFilter, c)]
    /\ UNCHANGED <<cfg, pc, now, cycle, start, containers, filtered, idx, results,
                   worker, sem, wg, scrapeErrors, emitNow, eidx, emitted, entries,
                   hits, misses, listCalls, getCalls, fetchCalls, setCalls, evictCalls,
                   listErr, lookup, cache0, visited, runtime, scrapes, calls, thr, mu,
                   cyc, heap, descIDs>>

FilterNext == NewFilterCall \/ MatchCall

FilterSpec == FilterInit /\ [][FilterNext]_vars

----------------------------------------------------------------------------
(* The StatsCache on its own: NewStatsCache(ttl, enabled), then any sequence
   of Get, Set, Evict and EvictStale while the clock advances *)

CacheConfigInputs == {[BaseConfig EXCEPT !.CacheEnabled = e] : e \in BOOLEAN}

CacheKeys == {Identity(k).ID : k \in Resources}

\* the Stats a caller may store under id: a capture of this instant, or an
\* older one
StatsInputs(id) == {<<StatsOf(id, t)>> : t \in {0, now}}

CacheInit ==
    /\ cfg \in CacheConfigInputs
    /\ pc = "idle"
    /\ scrapes = 0
    /\ runtime = Resources
    /\ Fresh

TotalCalls == calls.Get + calls.Set + calls.Evict + calls.EvictStale

\* the cache as a call finds it
Before == [entries |-> entries, hits |-> hits, misses |-> misses, now |-> now]

\* a Get that counts a miss whatever it returns
GetCallMissOnly ==
    /\ TotalCalls < MaxCalls
    /\ \E id \in CacheKeys :
          LET got == Get(entries, cfg.CacheEnabled, cfg.CacheTTL, now, id)
          IN /\ misses' = misses + 1
             /\ last' = [op |-> "Get", id |-> id, stats |-> got.stats, ok |-> got.ok,
                         pre |-> Before]
    /\ calls' = [calls EXCEPT !.Get = @ + 1]
    /\ UNCHANGED <<cfg, pc, now, cycle, start, containers, filtered, idx, results,
                   worker, sem, wg, scrapeErrors, emitNow, eidx, emitted, entries,
                   hits, listCalls, getCalls, fetchCalls, setCalls, evictCalls,
                   listErr, lookup, cache0, visited, runtime, scrapes, thr, mu, cyc,
                   heap, descIDs>>

\* c.Get(id): returns (stats, ok) and adds one to hits or to misses
GetCall ==
    /\ TotalCalls < MaxCalls
    /\ \E id \in CacheKeys :
          LET got == Get(entries, cfg.CacheEnabled, cfg.CacheTTL, now, id)
          IN /\ hits' = IF got.ok THEN hits + 1 ELSE hits
             /\ misses' = IF got.ok THEN misses ELSE misses + 1
             /\ last' = [op |-> "Get", id |-> id, stats |-> got.stats, ok |-> got.ok,
                         pre |-> Before]
    /\ calls' = [calls EXCEPT !.Get = @ + 1]
    /\ UNCHANGED <<cfg, pc, now, cycle, start, containers, filtered, idx, results,
                   worker, sem, wg, scrapeErrors, emitNow, eidx, emitted, entries,
                   listCalls, getCalls, fetchCalls, setCalls, evictCalls, listErr,
                   lookup, cache0, visited, runtime, scrapes, thr, mu, cyc, heap,
                   descIDs>>

\* c.Set(id, stats)
SetCall ==
    /\ TotalCalls < MaxCalls
    /\ \E id \in CacheKeys : \E stats \in StatsInputs(id) :
          /\ entries' = Set(entries, cfg.CacheEnabled, now, id, stats)
          /\ last' = [op |-> "Set", id |-> id, stats |-> stats, pre |-> Before]
          /\ calls' = [calls EXCEPT !.Set = @ + 1,
                                    !.latest = [x \in DOMAIN @ \cup {id} |->
                                                   IF x = id THEN [stats |-> stats, at |-> now]
                                                   ELSE @[x]],
                                    !.stored = @ \cup {<<id, stats>>}]
    /\ UNCHANGED <<cfg, pc, now, cycle, start, containers, filtered, idx, results,
                   worker, sem, wg, scrapeErrors, emitNow, eidx, emitted, hits, misses,
                   listCalls, getCalls, fetchCalls, setCalls, evictCalls, listErr,
                   lookup, cache0, visited, runtime, scrapes, thr, mu, cyc, heap,
                   descIDs>>

\* c.Evict(id)
EvictCall ==
    /\ TotalCalls < MaxCalls
    /\ \E id \in CacheKeys :
          /\ entries' = Evict(entries, id)
          /\ last' = [op |-> "Evict", id |-> id, pre |-> Before]
          /\ calls' = [calls EXCEPT !.Evict = @ + 1,
                                    !.latest = [x \in DOMAIN @ \ {id} |-> @[x]]]
    /\ UNCHANGED <<cfg, pc, now, cycle, start, containers, filtered, idx, results,
                   worker, sem, wg, scrapeErrors, emitNow, eidx, emitted, hits, misses,
                   listCalls, getCalls, fetchCalls, setCalls, evictCalls, listErr,
                   lookup, cache0, visited, runtime, scrapes, thr, mu, cyc, heap,
                   descIDs>>

\* c.EvictStale()
EvictStaleCall ==
    /\ TotalCalls < MaxCalls
    /\ entries' = EvictStale(entries, cfg.CacheTTL, now)
    /\ last' = [op |-> "EvictStale", pre |-> Before]
    /\ calls' = [calls EXCEPT !.EvictStale = @ + 1]
    /\ UNCHANGED <<cfg, pc, now, cycle, start, containers, filtered, idx, results,
                   worker, sem, wg, scrapeErrors, emitNow, eidx, emitted, hits, misses,
                   listCalls, getCalls, fetchCalls, setCalls, evictCalls, listErr,
                   lookup, cache0, visited, runtime, scrapes, thr, mu, cyc, heap,
                   descIDs>>

CacheNext == GetCall \/ SetCall \/ EvictCall \/ EvictStaleCall \/ Tick

CacheSpec == CacheInit /\ [][CacheNext]_vars

----------------------------------------------------------------------------
(* StatsCache called from several goroutines: the steps of each method *)

\* the Stats values the goroutines hand to Set for key id
LockStatsInputs(id) == {<<StatsOf(id, t)>> : t \in {0, 1}}

\* an RLock that returns whoever holds the lock
CanRLockAnytime(m) == TRUE

\* sync.RWMutex: RLock returns when no writer holds the lock
CanRLock(m) == m.writer = 0

\* sync.RWMutex: Lock returns when nobody holds the lock
CanLock(m) == m.writer = 0 /\ m.readers = {}

\* goroutine t is in the middle of a read of c.entries
Reading(t) == thr[t].pc = "access" /\ thr[t].op = "Get"

\* goroutine t is in the middle of a write of c.entries (EvictStale ranges and deletes)
Writing(t) == thr[t].pc = "access" /\ thr[t].op \in {"Set", "Evict", "EvictStale"}

\* what entry, ok := c.entries[id] gives
Lookup(ents, id) ==
    IF id \in DOMAIN ents
    THEN [ok |-> TRUE, stats |-> ents[id].stats, timestamp |-> ents[id].timestamp]
    ELSE NoEntry

\* what a map read that ran while another goroutine wrote the map may give
TornEntries ==
    {[ok |-> b, stats |-> s, timestamp |-> ts] :
        b \in BOOLEAN, s \in {NilStats, <<"torn">>}, ts \in 0..MaxTime}

\* the outcomes of the map read goroutine t is finishing
ReadOutcomes(t) ==
    IF thr[t].raced THEN TornEntries \cup {Lookup(entries, thr[t].id)}
    ELSE {Lookup(entries, thr[t].id)}

\* Get on a disabled cache: c.misses.Add(1); return nil, false
GetDisabled ==
    /\ TotalCalls < MaxLockCalls
    /\ ~cfg.CacheEnabled
    /\ \E t \in Threads : \E id \in CacheKeys :
          /\ thr[t].pc = "idle"
          /\ last' = [op |-> "Get", id |-> id, stats |-> NilStats, ok |-> FALSE]
    /\ misses' = misses + 1
    /\ calls' = [calls EXCEPT !.Get = @ + 1]
    /\ UNCHANGED <<cfg, pc, now, cycle, start, containers, filtered, idx, results,
                   worker, sem, wg, scrapeErrors, emitNow, eidx, emitted, entries,
                   hits, listCalls, getCalls, fetchCalls, setCalls, evictCalls,
                   listErr, lookup, cache0, visited, runtime, scrapes, thr, mu, cyc,
                   heap, descIDs>>

\* Get: c.mu.RLock()
GetRLock ==
    /\ TotalCalls < MaxLockCalls
    /\ cfg.CacheEnabled
    /\ CanRLock(mu)
    /\ \E t \in Threads : \E id \in CacheKeys :
          /\ thr[t].pc = "idle"
          /\ thr' = [thr EXCEPT ![t] = [IdleThread EXCEPT !.pc = "locked", !.op = "Get",
                                                          !.id = id]]
          /\ mu' = [mu EXCEPT !.readers = @ \cup {t}]
    /\ calls' = [calls EXCEPT !.Get = @ + 1]
    /\ UNCHANGED <<cfg, pc, now, cycle, start, containers, filtered, idx, results,
                   worker, sem, wg, scrapeErrors, emitNow, eidx, emitted, entries,
                   hits, misses, listCalls, getCalls, fetchCalls, setCalls, evictCalls,
                   listErr, lookup, cache0, visited, runtime, scrapes, last, cyc, heap,
                   descIDs>>

\* Get: the read of c.entries[id] starts
ReadBegin ==
    /\ \E t \in Threads :
          /\ thr[t].pc = "locked" /\ thr[t].op = "Get"
          /\ thr' = [thr EXCEPT ![t].pc = "access",
                                ![t].raced = \E u \in Threads \ {t} : Writing(u)]
    /\ UNCHANGED <<cfg, pc, now, cycle, start, containers, filtered, idx, results,
                   worker, sem, wg, scrapeErrors, emitNow, eidx, emitted, entries,
                   hits, misses, listCalls, getCalls, fetchCalls, setCalls, evictCalls,
                   listErr, lookup, cache0, visited, runtime, scrapes, last, calls, mu,
                   cyc, heap, descIDs>>

\* Get: entry, ok := c.entries[id] is done
ReadEnd ==
    /\ \E t \in Threads :
          /\ Reading(t)
          /\ \E e \in ReadOutcomes(t) :
                thr' = [thr EXCEPT ![t].pc = "accessed", ![t].entry = e]
    /\ UNCHANGED <<cfg, pc, now, cycle, start, containers, filtered, idx, results,
                   worker, sem, wg, scrapeErrors, emitNow, eidx, emitted, entries,
                   hits, misses, listCalls, getCalls, fetchCalls, setCalls, evictCalls,
                   listErr, lookup, cache0, visited, runtime, scrapes, last, calls, mu,
                   cyc, heap, descIDs>>

\* Get: c.mu.RUnlock()
RUnlock ==
    /\ \E t \in Threads :
          /\ thr[t].pc = "accessed" /\ thr[t].op = "Get"
          /\ thr' = [thr EXCEPT ![t].pc = "unlocked"]
          /\ mu' = [mu EXCEPT !.readers = @ \ {t}]
    /\ UNCHANGED <<cfg, pc, now, cycle, start, containers, filtered, idx, results,
                   worker, sem, wg, scrapeErrors, emitNow, eidx, emitted, entries,
                   hits, misses, listCalls, getCalls, fetchCalls, setCalls, evictCalls,
                   listErr, lookup, cache0, visited, runtime, scrapes, last, calls,
                   cyc, heap, descIDs>>

\* Get: the expiry test on the copy of the entry, the counter, the return
GetReturn ==
    /\ \E t \in Threads :
          /\ thr[t].pc = "unlocked"
          /\ LET e == thr[t].entry
                 found == e.ok /\ ~(now - e.timestamp > cfg.CacheTTL)
             IN /\ hits' = IF found THEN hits + 1 ELSE hits
                /\ misses' = IF found THEN misses ELSE misses + 1
                /\ last' = [op |-> "Get", id |-> thr[t].id,
                            stats |-> IF found THEN e.stats ELSE NilStats,
                            ok |-> found]
          /\ thr' = [thr EXCEPT ![t] = IdleThread]
    /\ UNCHANGED <<cfg, pc, now, cycle, start, containers, filtered, idx, results,
                   worker, sem, wg, scrapeErrors, emitNow, eidx, emitted, entries,
                   listCalls, getCalls, fetchCalls, setCalls, evictCalls, listErr,
                   lookup, cache0, visited, runtime, scrapes, calls, mu, cyc, heap,
                   descIDs>>

\* Set on a disabled cache: return
SetDisabled ==
    /\ TotalCalls < MaxLockCalls
    /\ ~cfg.CacheEnabled
    /\ \E t \in Threads : \E id \in CacheKeys : \E stats \in LockStatsInputs(id) :
          /\ thr[t].pc = "idle"
          /\ calls' = [calls EXCEPT !.Set = @ + 1, !.stored = @ \cup {<<id, stats>>}]
    /\ UNCHANGED <<cfg, pc, now, cycle, start, containers, filtered, idx, results,
                   worker, sem, wg, scrapeErrors, emitNow, eidx, emitted, entries,
                   hits, misses, listCalls, getCalls, fetchCalls, setCalls, evictCalls,
                   listErr, lookup, cache0, visited, runtime, scrapes, last, thr, mu,
                   cyc, heap, descIDs>>

\* Set: c.mu.Lock()
SetLock ==
    /\ TotalCalls < MaxLockCalls
    /\ cfg.CacheEnabled
    /\ CanLock(mu)
    /\ \E t \in Threads : \E id \in CacheKeys : \E stats \in LockStatsInputs(id) :
          /\ thr[t].pc = "idle"
          /\ thr' = [thr EXCEPT ![t] = [IdleThread EXCEPT !.pc = "locked", !.op = "Set",
                                                          !.id = id, !.stats = stats]]
          /\ mu' = [mu EXCEPT !.writer = t]
          /\ calls' = [calls EXCEPT !.Set = @ + 1, !.stored = @ \cup {<<id, stats>>}]
    /\ UNCHANGED <<cfg, pc, now, cycle, start, containers, filtered, idx, results,
                   worker, sem, wg, scrapeErrors, emitNow, eidx, emitted, entries,
                   hits, misses, listCalls, getCalls, fetchCalls, setCalls, evictCalls,
                   listErr, lookup, cache0, visited, runtime, scrapes, last, cyc, heap,
                   descIDs>>

\* Evict: c.mu.Lock()
EvictLock ==
    /\ TotalCalls < MaxLockCalls
    /\ CanLock(mu)
    /\ \E t \in Threads : \E id \in CacheKeys :
          /\ thr[t].pc = "idle"
          /\ thr' = [thr EXCEPT ![t] = [IdleThread EXCEPT !.pc = "locked", !.op = "Evict",
                                                          !.id = id]]
          /\ mu' = [mu EXCEPT !.writer = t]
    /\ calls' = [calls EXCEPT !.Evict = @ + 1]
    /\ UNCHANGED <<cfg, pc, now, cycle, start, containers, filtered, idx, results,
                   worker, sem, wg, scrapeErrors, emitNow, eidx, emitted, entries,
                   hits, misses, listCalls, getCalls, fetchCalls, setCalls, evictCalls,
                   listErr, lookup, cache0, visited, runtime, scrapes, last, cyc, heap,
                   descIDs>>

\* EvictStale: c.mu.Lock(); defer c.mu.Unlock()
EvictStaleLock ==
    /\ TotalCalls < MaxLockCalls
    /\ CanLock(mu)
    /\ \E t \in Threads :
          /\ thr[t].pc = "idle"
          /\ thr' = [thr EXCEPT ![t] = [IdleThread EXCEPT !.pc = "locked",
                                                          !.op = "EvictStale"]]
          /\ mu' = [mu EXCEPT !.writer = t]
    /\ calls' = [calls EXCEPT !.EvictStale = @ + 1]
    /\ UNCHANGED <<cfg, pc, now, cycle, start, containers, filtered, idx, results,
                   worker, sem, wg, scrapeErrors, emitNow, eidx, emitted, entries,
                   hits, misses, listCalls, getCalls, fetchCalls, setCalls, evictCalls,
                   listErr, lookup, cache0, visited, runtime, scrapes, last, cyc, heap,
                   descIDs>>

\* Set, Evict, EvictStale: time.Now() is read and the write of c.entries starts;
\* a read of the map that is under way from now on races with it
WriteBegin ==
    /\ \E t \in Threads :
          /\ thr[t].pc = "locked" /\ thr[t].op \in {"Set", "Evict", "EvictStale"}
          /\ thr' = [u \in Threads |->
                        IF u = t THEN [thr[u] EXCEPT !.pc = "access", !.at = now]
                        ELSE IF Reading(u) THEN [thr[u] EXCEPT !.raced = TRUE]
                        ELSE thr[u]]
    /\ UNCHANGED <<cfg, pc, now, cycle, start, containers, filtered, idx, results,
                   worker, sem, wg, scrapeErrors, emitNow, eidx, emitted, entries,
                   hits, misses, listCalls, getCalls, fetchCalls, setCalls, evictCalls,
                   listErr, lookup, cache0, visited, runtime, scrapes, last, calls, mu,
                   cyc, heap, descIDs>>

\* Set, Evict, EvictStale: the write of c.entries is done
WriteEnd ==
    /\ \E t \in Threads :
          /\ Writing(t)
          /\ entries' = CASE thr[t].op = "Set" ->
                                Set(entries, TRUE, thr[t].at, thr[t].id, thr[t].stats)
                           [] thr[t].op = "Evict" -> Evict(entries, thr[t].id)
                           [] thr[t].op = "EvictStale" ->
                                EvictStale(entries, cfg.CacheTTL, thr[t].at)
          /\ thr' = [thr EXCEPT ![t].pc = "accessed"]
    /\ UNCHANGED <<cfg, pc, now, cycle, start, containers, filtered, idx, results,
                   worker, sem, wg, scrapeErrors, emitNow, eidx, emitted, hits, misses,
                   listCalls, getCalls, fetchCalls, setCalls, evictCalls, listErr,
                   lookup, cache0, visited, runtime, scrapes, last, calls, mu, cyc,
                   heap, descIDs>>

\* Set, Evict, EvictStale: c.mu.Unlock() and the return
Unlock ==
    /\ \E t \in Threads :
          /\ thr[t].pc = "accessed" /\ thr[t].op \in {"Set", "Evict", "EvictStale"}
          /\ thr' = [thr EXCEPT ![t] = IdleThread]
          /\ mu' = [mu EXCEPT !.writer = 0]
    /\ UNCHANGED <<cfg, pc, now, cycle, start, containers, filtered, idx, results,
                   worker, sem, wg, scrapeErrors, emitNow, eidx, emitted, entries,
                   hits, misses, listCalls, getCalls, fetchCalls, setCalls, evictCalls,
                   listErr, lookup, cache0, visited, runtime, scrapes, last, calls,
                   cyc, heap, descIDs>>

LockInit == CacheInit

LockNext ==
    \/ GetDisabled \/ GetRLock \/ ReadBegin \/ ReadEnd \/ RUnlock \/ GetReturn
    \/ SetDisabled \/ SetLock \/ EvictLock \/ EvictStaleLock
    \/ WriteBegin \/ WriteEnd \/ Unlock
    \/ Tick

LockSpec == LockInit /\ [][LockNext]_vars

----------------------------------------------------------------------------
(* internal/metrics/helpers.go called directly: measurements constructed with
   any number of label values *)

\* one descriptor for each list of label names
SendDescInputs ==
    {"container_memory_usage_bytes", "container_network_receive_bytes_total",
     "container_fs_reads_total", "container_info", "exporter_scrape_errors_total"}

\* lists of 0..MaxLabelValues label values
LabelValueInputs == {[j \in 1..n |-> <<"v">>] : n \in 0..MaxLabelValues}

SendInit ==
    /\ cfg = BaseConfig
    /\ pc = "emit"
    /\ scrapes = 0
    /\ runtime = Resources
    /\ Fresh

\* metrics.SendSafe(ch, metrics.SafeNewConstMetric(desc, valueType, value, lv...))
SendCall ==
    /\ calls.Send < MaxSends
    /\ \E desc \in SendDescInputs : \E lv \in LabelValueInputs :
          /\ emitted' = emitted \o SendSafe(desc, 1, FALSE, lv)
          /\ last' = [op |-> "SendSafe", desc |-> desc, lv |-> lv, pre |-> emitted]
    /\ calls' = [calls EXCEPT !.Send = @ + 1]
    /\ UNCHANGED <<cfg, pc, now, cycle, start, containers, filtered, idx, results,
                   worker, sem, wg, scrapeErrors, emitNow, eidx, entries, hits, misses,
                   listCalls, getCalls, fetchCalls, setCalls, evictCalls, listErr,
                   lookup, cache0, visited, runtime, scrapes, thr, mu, cyc, heap,
                   descIDs>>

SendNext == SendCall

SendSpec == SendInit /\ [][SendNext]_vars

----------------------------------------------------------------------------
(* internal/docker/labels.go called directly *)

\* the characters of the strings handed to SanitizeLabelValue: a safe letter,
\* a safe punctuation, white space, an unsafe character
SanitizeAlphabet == {"a", "=", " ", "!"}

StringInputs == UNION {[1..n -> SanitizeAlphabet] : n \in 0..MaxLen}

\* names and images: empty, plain, with white space and an unsafe character
IdentityTextInputs == {Empty, <<"w", "e", "b">>, <<" ", "d", "!", "b">>}

\* the label maps of a container: each compose label absent, empty or set
LabelMapInputs ==
    {[x \in K |-> v[x]] : K \in SUBSET {LabelComposeService, LabelComposeProject, <<"other">>},
                         v \in [{LabelComposeService, LabelComposeProject, <<"other">>} ->
                                    {Empty, <<"s", " ", "1">>}]}

LabelContainerInputs ==
    {[ZeroContainer EXCEPT !.Name = n, !.Image = i, !.Labels = l] :
        n \in IdentityTextInputs, i \in IdentityTextInputs, l \in LabelMapInputs}

LabelInit ==
    /\ cfg = BaseConfig
    /\ pc = "idle"
    /\ scrapes = 0
    /\ runtime = Resources
    /\ Fresh

\* docker.ExtractLabels(c).Values()
ExtractLabelsCall ==
    /\ \E c \in LabelContainerInputs :
          last' = [op |-> "ExtractLabels", c |-> c, labels |-> ExtractLabels(c),
                   values |-> Values(ExtractLabels(c))]
    /\ UNCHANGED <<cfg, pc, now, cycle, start, containers, filtered, idx, results,
                   worker, sem, wg, scrapeErrors, emitNow, eidx, emitted, entries,
                   hits, misses, listCalls, getCalls, fetchCalls, setCalls, evictCalls,
                   listErr, lookup, cache0, visited, runtime, scrapes, calls, thr, mu,
                   cyc, heap, descIDs>>

\* docker.SanitizeLabelValue(x), and once more on what it returned
SanitizeCall ==
    /\ \E x \in StringInputs :
          last' = [op |-> "SanitizeLabelValue", x |-> x, out |-> SanitizeLabelValue(x),
                   again |-> SanitizeLabelValue(SanitizeLabelValue(x))]
    /\ UNCHANGED <<cfg, pc, now, cycle, start, containers, filtered, idx, results,
                   worker, sem, wg, scrapeErrors, emitNow, eidx, emitted, entries,
                   hits, misses, listCalls, getCalls, fetchCalls, setCalls, evictCalls,
                   listErr, lookup, cache0, visited, runtime, scrapes, calls, thr, mu,
                   cyc, heap, descIDs>>

LabelNext == ExtractLabelsCall \/ SanitizeCall

LabelSpec == LabelInit /\ [][LabelNext]_vars

----------------------------------------------------------------------------
(* internal/docker/stats.go: parseMemoryStats called directly *)

\* parseMemoryStats that looks for "anon" before "rss"
parseMemoryStatsAnonFirst(mem) ==
    [MemoryUsage |-> mem.Usage, MemoryLimit |-> mem.Limit, MemoryFailcnt |-> mem.Failcnt,
     MemoryCache |-> 0, MemorySwap |-> 0, MemoryWorkingSet |-> mem.Usage,
     MemoryRSS |-> IF <<"anon">> \in DOMAIN mem.Stats THEN mem.Stats[<<"anon">>]
                   ELSE IF <<"rss">> \in DOMAIN mem.Stats THEN mem.Stats[<<"rss">>]
                   ELSE 0]

\* the memory fields of the Stats parseMemoryStats fills from the raw block
\* mem, the Stats being zero before
parseMemoryStats(mem) ==
    LET inactiveFile ==
            IF <<"inactive_file">> \in DOMAIN mem.Stats THEN mem.Stats[<<"inactive_file">>]
            ELSE IF <<"total_inactive_file">> \in DOMAIN mem.Stats
                 THEN mem.Stats[<<"total_inactive_file">>]
            ELSE 0
    IN [MemoryUsage |-> mem.Usage, MemoryLimit |-> mem.Limit, MemoryFailcnt |-> mem.Failcnt,
        MemoryCache |-> IF <<"cache">> \in DOMAIN mem.Stats THEN mem.Stats[<<"cache">>] ELSE 0,
        MemoryRSS |-> IF <<"rss">> \in DOMAIN mem.Stats THEN mem.Stats[<<"rss">>]
                      ELSE IF <<"anon">> \in DOMAIN mem.Stats THEN mem.Stats[<<"anon">>]
                      ELSE 0,
        MemorySwap |-> IF <<"swap">> \in DOMAIN mem.Stats THEN mem.Stats[<<"swap">>] ELSE 0,
        MemoryWorkingSet |-> IF mem.Usage > inactiveFile THEN mem.Usage - inactiveFile
                             ELSE mem.Usage]

\* the keys of MemoryStats.Stats the parser looks at, and one it does not
MemoryKeys ==
    {<<"cache">>, <<"rss">>, <<"anon">>, <<"swap">>, <<"inactive_file">>,
     <<"total_inactive_file">>, <<"pgfault">>}

\* raw memory blocks: any of the keys present, the four the claims are about
\* with any value
MemoryInputs ==
    {[Usage |-> u, Limit |-> MaxBytes, Failcnt |-> 0, Stats |-> [x \in K |-> v[x]]] :
        u \in 0..MaxBytes, K \in SUBSET MemoryKeys,
        v \in {w \in [MemoryKeys -> 0..MaxBytes] :
                  w[<<"cache">>] = 1 /\ w[<<"swap">>] = 1 /\ w[<<"pgfault">>] = 1}}

ParseInit ==
    /\ cfg = BaseConfig
    /\ pc = "idle"
    /\ scrapes = 0
    /\ runtime = Resources
    /\ Fresh

\* parseMemoryStats(s, mem) on a zero Stats
ParseMemoryCall ==
    /\ pc = "idle"
    /\ \E mem \in MemoryInputs :
          last' = [op |-> "parseMemoryStats", mem |-> mem, s |-> parseMemoryStats(mem)]
    /\ pc' = "parsed"
    /\ UNCHANGED <<cfg, now, cycle, start, containers, filtered, idx, results, worker,
                   sem, wg, scrapeErrors, emitNow, eidx, emitted, entries, hits,
                   misses, listCalls, getCalls, fetchCalls, setCalls, evictCalls,
                   listErr, lookup, cache0, visited, runtime, scrapes, calls, thr, mu,
                   cyc, heap, descIDs>>

ParseNext == ParseMemoryCall

ParseSpec == ParseInit /\ [][ParseNext]_vars

----------------------------------------------------------------------------
(* internal/server: the handler NewServer builds, called with one request *)

HealthPath == <<"/health">>
ReadyPath == <<"/ready">>
MetricsPath == <<"/metrics">>
VersionPath == <<"/version">>

\* the server configurations Validate accepts: auth off, auth on
ServerConfigInputs ==
    {c \in {BaseConfig,
            [BaseConfig EXCEPT !.AuthEnabled = TRUE, !.Username = <<"u">>,
                               !.Password = <<"p">>]} : Validate(c) = Nil}

\* r.BasicAuth(): no Authorization header, or a user name and a password
NoCredentials == [ok |-> FALSE, u |-> Empty, p |-> Empty]
CredentialInputs ==
    {NoCredentials}
        \cup {[ok |-> TRUE, u |-> u, p |-> p] : u \in {<<"u">>, <<"x">>}, p \in {<<"p">>, Empty}}

RequestInputs ==
    {[method |-> m, path |-> pa, creds |-> cr, reachable |-> d] :
        m \in {"GET", "HEAD", "POST"},
        pa \in {HealthPath, ReadyPath, MetricsPath, VersionPath, <<"/">>},
        cr \in CredentialInputs, d \in BOOLEAN}

\* the status codes the routes of mux answer with: the health, ready and
\* version handlers, promhttp on the metrics path (500 when gathering
\* fails), and NotFound elsewhere
Route(req) ==
    CASE req.path = HealthPath -> {200}
      [] req.path = ReadyPath -> IF req.reachable THEN {200} ELSE {503}
      [] req.path = VersionPath -> {200}
      [] req.path = MetricsPath -> {200, 500}
      [] OTHER -> {404}

\* basicAuthMiddleware(username, password, next)
basicAuthMiddleware(username, password, req) ==
    IF ~req.creds.ok \/ req.creds.u # username \/ req.creds.p # password
    THEN {401}
    ELSE Route(req)

\* the handler of the http.Server: recovery, logging, auth when enabled, mux
ServeHTTP(c, req) ==
    IF c.AuthEnabled THEN basicAuthMiddleware(c.Username, c.Password, req)
    ELSE Route(req)

ServerInit ==
    /\ cfg \in ServerConfigInputs
    /\ pc = "serving"
    /\ scrapes = 0
    /\ runtime = Resources
    /\ Fresh

\* one request is served
ServeRequest ==
    /\ pc = "serving"
    /\ \E req \in RequestInputs : \E status \in ServeHTTP(cfg, req) :
          last' = [op |-> "Request", req |-> req, status |-> status]
    /\ UNCHANGED <<cfg, pc, now, cycle, start, containers, filtered, idx, results,
                   worker, sem, wg, scrapeErrors, emitNow, eidx, emitted, entries,
                   hits, misses, listCalls, getCalls, fetchCalls, setCalls, evictCalls,
                   listErr, lookup, cache0, visited, runtime, scrapes, calls, thr, mu,
                   cyc, heap, descIDs>>

ServerNext == ServeRequest

ServerSpec == ServerInit /\ [][ServerNext]_vars

----------------------------------------------------------------------------
(* Collect called for several scrapes at once: the registry calls Collect of
   the one ContainerCollector once per scrape, each call with its own locals *)

\* max_concurrent of at least 1, the cache on or off, no filter rule
ConcConfigInputs ==
    {[BaseConfig EXCEPT !.MaxConcurrent = m, !.CacheEnabled = e] :
        m \in 1..MaxConcurrentBound, e \in BOOLEAN}

\* the emission loop over results rs from position j on: what is sent on ch
\* and the number of failed results
RECURSIVE EmitAll(_, _, _)
EmitAll(rs, j, t) ==
    IF j > Len(rs) THEN [out |-> <<>>, errs |-> 0]
    ELSE LET e == EmitResult(rs[j], Values(ExtractLabels(rs[j].container)), t)
             rest == EmitAll(rs, j + 1, t)
         IN [out |-> e.out \o rest.out, errs |-> e.errs + rest.errs]

\* call k: start := time.Now(), scrapeErrors := 0, ListContainers is called
ConcCollectStart ==
    /\ \E k \in Collects :
          /\ cyc[k].pc = "idle"
          /\ cyc' = [cyc EXCEPT ![k].pc = "listing", ![k].start = now]
    /\ UNCHANGED <<cfg, pc, now, cycle, start, containers, filtered, idx, results,
                   worker, sem, wg, scrapeErrors, emitNow, eidx, emitted, entries,
                   hits, misses, listCalls, getCalls, fetchCalls, setCalls, evictCalls,
                   listErr, lookup, cache0, visited, runtime, scrapes, last, calls,
                   thr, mu, heap, descIDs>>

\* call k: ListContainers returns an error
ConcListFails ==
    /\ \E k \in Collects :
          /\ cyc[k].pc = "listing"
          /\ cyc' = [cyc EXCEPT ![k].pc = "returned", ![k].scrapeErrors = 1,
                                ![k].emitted = emitSelfMetrics(cyc[k].start, 1, now)]
    /\ UNCHANGED <<cfg, pc, now, cycle, start, containers, filtered, idx, results,
                   worker, sem, wg, scrapeErrors, emitNow, eidx, emitted, entries,
                   hits, misses, listCalls, getCalls, fetchCalls, setCalls, evictCalls,
                   listErr, lookup, cache0, visited, runtime, scrapes, last, calls,
                   thr, mu, heap, descIDs>>

\* call k: ListContainers returns cs; filter, make results, wg and sem
ConcListReturns ==
    /\ \E k \in Collects : \E cs \in ListOutcomes(runtime) :
          /\ cyc[k].pc = "listing"
          /\ \E f \in {FilterList(TheFilter, cs)} :
                cyc' = [cyc EXCEPT ![k].pc = "dispatch", ![k].filtered = f,
                                   ![k].results = [j \in 1..Len(f) |-> ZeroResult],
                                   ![k].worker = [j \in 1..Len(f) |-> "none"],
                                   ![k].idx = 1, ![k].sem = 0, ![k].wg = 0]
    /\ UNCHANGED <<cfg, pc, now, cycle, start, containers, filtered, idx, results,
                   worker, sem, wg, scrapeErrors, emitNow, eidx, emitted, entries,
                   hits, misses, listCalls, getCalls, fetchCalls, setCalls, evictCalls,
                   listErr, lookup, cache0, visited, runtime, scrapes, last, calls,
                   thr, mu, heap, descIDs>>

\* call k, dispatch loop: a container that is not running
ConcDispatchNotRunning ==
    /\ \E k \in Collects :
          /\ cyc[k].pc = "dispatch" /\ cyc[k].idx <= Len(cyc[k].filtered)
          /\ ~IsRunning(cyc[k].filtered[cyc[k].idx])
          /\ cyc' = [cyc EXCEPT ![k].results[cyc[k].idx] =
                                    [container |-> cyc[k].filtered[cyc[k].idx],
                                     stats |-> NilStats, err |-> Nil],
                                ![k].idx = @ + 1]
    /\ UNCHANGED <<cfg, pc, now, cycle, start, containers, filtered, idx, results,
                   worker, sem, wg, scrapeErrors, emitNow, eidx, emitted, entries,
                   hits, misses, listCalls, getCalls, fetchCalls, setCalls, evictCalls,
                   listErr, lookup, cache0, visited, runtime, scrapes, last, calls,
                   thr, mu, heap, descIDs>>

\* call k, dispatch loop: a running container found in the cache
ConcDispatchCacheHit ==
    /\ \E k \in Collects :
          /\ cyc[k].pc = "dispatch" /\ cyc[k].idx <= Len(cyc[k].filtered)
          /\ IsRunning(cyc[k].filtered[cyc[k].idx])
          /\ \E got \in {Get(entries, cfg.CacheEnabled, cfg.CacheTTL, now,
                              cyc[k].filtered[cyc[k].idx].ID)} :
                /\ got.ok
                /\ cyc' = [cyc EXCEPT ![k].results[cyc[k].idx] =
                                          [container |-> cyc[k].filtered[cyc[k].idx],
                                           stats |-> got.stats, err |-> Nil],
                                      ![k].idx = @ + 1]
    /\ hits' = hits + 1
    /\ UNCHANGED <<cfg, pc, now, cycle, start, containers, filtered, idx, results,
                   worker, sem, wg, scrapeErrors, emitNow, eidx, emitted, entries,
                   misses, listCalls, getCalls, fetchCalls, setCalls, evictCalls,
                   listErr, lookup, cache0, visited, runtime, scrapes, last, calls,
                   thr, mu, heap, descIDs>>

\* call k, dispatch loop: a running container not in the cache; wg.Add(1)
ConcDispatchCacheMiss ==
    /\ \E k \in Collects :
          /\ cyc[k].pc = "dispatch" /\ cyc[k].idx <= Len(cyc[k].filtered)
          /\ IsRunning(cyc[k].filtered[cyc[k].idx])
          /\ ~Get(entries, cfg.CacheEnabled, cfg.CacheTTL, now,
                  cyc[k].filtered[cyc[k].idx].ID).ok
          /\ cyc' = [cyc EXCEPT ![k].pc = "acquire", ![k].wg = @ + 1]
    /\ misses' = misses + 1
    /\ UNCHANGED <<cfg, pc, now, cycle, start, containers, filtered, idx, results,
                   worker, sem, wg, scrapeErrors, emitNow, eidx, emitted, entries,
                   hits, listCalls, getCalls, fetchCalls, setCalls, evictCalls,
                   listErr, lookup, cache0, visited, runtime, scrapes, last, calls,
                   thr, mu, heap, descIDs>>

\* call k: sem <- struct{}{} on the sem of this call; the goroutine is
\* started and calls GetContainerStats
ConcAcquireSlot ==
    /\ \E k \in Collects :
          /\ cyc[k].pc = "acquire"
          /\ CanSend(cyc[k].sem, cfg.MaxConcurrent)
          /\ cyc' = [cyc EXCEPT ![k].pc = "dispatch", ![k].sem = @ + 1,
                                ![k].worker[cyc[k].idx] = "fetching",
                                ![k].idx = @ + 1]
    /\ UNCHANGED <<cfg, pc, now, cycle, start, containers, filtered, idx, results,
                   worker, sem, wg, scrapeErrors, emitNow, eidx, emitted, entries,
                   hits, misses, listCalls, getCalls, fetchCalls, setCalls, evictCalls,
                   listErr, lookup, cache0, visited, runtime, scrapes, last, calls,
                   thr, mu, heap, descIDs>>

\* call k: the dispatch loop is over, wg.Wait() is called
ConcDispatchEnd ==
    /\ \E k \in Collects :
          /\ cyc[k].pc = "dispatch" /\ cyc[k].idx > Len(cyc[k].filtered)
          /\ cyc' = [cyc EXCEPT ![k].pc = "await"]
    /\ UNCHANGED <<cfg, pc, now, cycle, start, containers, filtered, idx, results,
                   worker, sem, wg, scrapeErrors, emitNow, eidx, emitted, entries,
                   hits, misses, listCalls, getCalls, fetchCalls, setCalls, evictCalls,
                   listErr, lookup, cache0, visited, runtime, scrapes, last, calls,
                   thr, mu, heap, descIDs>>

\* call k, slot i: GetContainerStats returns stats; the slot is written and
\* c.cache.Set is called
ConcFetchReturns ==
    /\ \E k \in Collects : \E i \in DOMAIN cyc[k].worker :
          /\ cyc[k].worker[i] = "fetching"
          /\ \E stats \in {<<StatsOf(cyc[k].filtered[i].ID, now)>>} :
                /\ cyc' = [cyc EXCEPT ![k].results[i] =
                                          [container |-> cyc[k].filtered[i],
                                           stats |-> stats, err |-> Nil],
                                      ![k].worker[i] = "returned"]
                /\ entries' = Set(entries, cfg.CacheEnabled, now,
                                  cyc[k].filtered[i].ID, stats)
    /\ UNCHANGED <<cfg, pc, now, cycle, start, containers, filtered, idx, results,
                   worker, sem, wg, scrapeErrors, emitNow, eidx, emitted, hits, misses,
                   listCalls, getCalls, fetchCalls, setCalls, evictCalls, listErr,
                   lookup, cache0, visited, runtime, scrapes, last, calls, thr, mu,
                   heap, descIDs>>

\* call k, slot i: GetContainerStats returns an error
ConcFetchFails ==
    /\ \E k \in Collects : \E i \in DOMAIN cyc[k].worker :
          /\ cyc[k].worker[i] = "fetching"
          /\ cyc' = [cyc EXCEPT ![k].results[i] =
                                    [container |-> cyc[k].filtered[i],
                                     stats |-> NilStats, err |-> "error"],
                                ![k].worker[i] = "returned"]
    /\ UNCHANGED <<cfg, pc, now, cycle, start, containers, filtered, idx, results,
                   worker, sem, wg, scrapeErrors, emitNow, eidx, emitted, entries,
                   hits, misses, listCalls, getCalls, fetchCalls, setCalls, evictCalls,
                   listErr, lookup, cache0, visited, runtime, scrapes, last, calls,
                   thr, mu, heap, descIDs>>

\* call k, slot i: the deferred <-sem and wg.Done()
ConcWorkerDone ==
    /\ \E k \in Collects : \E i \in DOMAIN cyc[k].worker :
          /\ cyc[k].worker[i] = "returned"
          /\ cyc' = [cyc EXCEPT ![k].worker[i] = "done", ![k].sem = @ - 1,
                                ![k].wg = @ - 1]
    /\ UNCHANGED <<cfg, pc, now, cycle, start, containers, filtered, idx, results,
                   worker, sem, wg, scrapeErrors, emitNow, eidx, emitted, entries,
                   hits, misses, listCalls, getCalls, fetchCalls, setCalls, evictCalls,
                   listErr, lookup, cache0, visited, runtime, scrapes, last, calls,
                   thr, mu, heap, descIDs>>

\* call k: wg.Wait() returns, now := time.Now(), the emission loop runs
ConcEmit ==
    /\ \E k \in Collects :
          /\ cyc[k].pc = "await" /\ cyc[k].wg = 0
          /\ \E e \in {EmitAll(cyc[k].results, 1, now)} :
                cyc' = [cyc EXCEPT ![k].pc = "evict", ![k].emitted = e.out,
                                   ![k].scrapeErrors = e.errs]
    /\ UNCHANGED <<cfg, pc, now, cycle, start, containers, filtered, idx, results,
                   worker, sem, wg, scrapeErrors, emitNow, eidx, emitted, entries,
                   hits, misses, listCalls, getCalls, fetchCalls, setCalls, evictCalls,
                   listErr, lookup, cache0, visited, runtime, scrapes, last, calls,
                   thr, mu, heap, descIDs>>

\* call k: c.cache.EvictStale(), c.emitSelfMetrics, return
ConcEvictAndSelf ==
    /\ \E k \in Collects :
          /\ cyc[k].pc = "evict"
          /\ cyc' = [cyc EXCEPT ![k].pc = "returned",
                                ![k].emitted = @ \o emitSelfMetrics(cyc[k].start,
                                                                    cyc[k].scrapeErrors, now)]
    /\ entries' = EvictStale(entries, cfg.CacheTTL, now)
    /\ UNCHANGED <<cfg, pc, now, cycle, start, containers, filtered, idx, results,
                   worker, sem, wg, scrapeErrors, emitNow, eidx, emitted, hits, misses,
                   listCalls, getCalls, fetchCalls, setCalls, evictCalls, listErr,
                   lookup, cache0, visited, runtime, scrapes, last, calls, thr, mu,
                   heap, descIDs>>

\* the clock advances by one tick while no Collect call is under way: the calls
\* that overlap do so within one tick
ConcTick ==
    /\ \A k \in Collects : cyc[k].pc \in {"idle", "returned"}
    /\ now < MaxTime
    /\ now' = now + 1
    /\ UNCHANGED <<cfg, pc, cycle, start, containers, filtered, idx, results, worker,
                   sem, wg, scrapeErrors, emitNow, eidx, emitted, entries, hits,
                   misses, listCalls, getCalls, fetchCalls, setCalls, evictCalls,
                   listErr, lookup, cache0, visited, runtime, scrapes, last, calls,
                   thr, mu, cyc, heap, descIDs>>

ConcInit ==
    /\ cfg \in ConcConfigInputs
    /\ pc = "idle"
    /\ scrapes = 0
    /\ runtime = Resources
    /\ Fresh

ConcNext ==
    \/ ConcCollectStart \/ ConcListFails \/ ConcListReturns
    \/ ConcDispatchNotRunning \/ ConcDispatchCacheHit \/ ConcDispatchCacheMiss
    \/ ConcAcquireSlot \/ ConcDispatchEnd
    \/ ConcFetchReturns \/ ConcFetchFails \/ ConcWorkerDone
    \/ ConcEmit \/ ConcEvictAndSelf
    \/ ConcTick

ConcSpec == ConcInit /\ [][ConcNext]_vars

----------------------------------------------------------------------------
(* Reading the output of a cycle *)

\* the label values every measurement of container c starts with
LvOf(c) == Values(ExtractLabels(c))

Belongs(m, c) == Len(m.lv) >= 4 /\ SubSeq(m.lv, 1, 4) = LvOf(c)

IsState(m) == m.desc \in Range(StateDescs)
IsResource(m) == m.desc \in ResourceDescNames
IsSelf(m) == m.desc \in Range(SelfDescs)

\* the measurements emitted so far in this cycle for container c
StateOf(c) == {k \in 1..Len(emitted) : IsState(emitted[k]) /\ Belongs(emitted[k], c)}
ResourceOf(c) == {k \in 1..Len(emitted) : IsResource(emitted[k]) /\ Belongs(emitted[k], c)}
DescsAt(K) == {emitted[k].desc : k \in K}

\* the state measurements that are built whatever the start time is
StateOnlyDescs == {"container_last_seen", "container_info", "container_health_status",
                   "container_restart_count", "container_exit_code"}
\* the resource measurements that are built whatever the interfaces and devices are
FullResourceDescs ==
    Range(MemoryDescs) \cup {CPUDescs[k][1] : k \in 1..Len(CPUDescs)} \cup Range(PIDsDescs)

\* the emission loop of a cycle whose List succeeded has ended
Emitted == ~listErr /\ pc \in {"self", "done"}

FailedSlots == {i \in Slots : results[i].err # Nil}

\* the cache holds for this ID what it held when the cycle started, or nothing
NotWritten(id) == id \in DOMAIN entries =>
                      id \in DOMAIN cache0.entries /\ entries[id] = cache0.entries[id]

InFlight == Cardinality({i \in DOMAIN worker : worker[i] = "fetching"})

----------------------------------------------------------------------------
(* Claims *)

\* C1: after the emission loop of a cycle whose List succeeded, a running
\* filtered resource whose fetch returned an error has its state-only
\* measurements (last-seen, info, health, restart count, exit code) emitted,
\* has no resource measurement emitted, and was not written to the cache.
C1_FailedFetchStateOnly ==
    Emitted =>
        \A i \in FailedSlots :
            /\ StateOnlyDescs \subseteq DescsAt(StateOf(filtered[i]))
            /\ ResourceOf(filtered[i]) = {}
            /\ NotWritten(filtered[i].ID)

\* C2: after the emission loop, every resource whose Stats were obtained
\* (from a fetch or from the cache) has its full resource measurements, with
\* the values of those Stats, whatever happened to the other fetches, and the
\* error count of the cycle is the number of resources whose fetch failed.
C2_FailureIsolated ==
    Emitted =>
        /\ \A i \in Slots :
              results[i].stats # NilStats =>
                  /\ FullResourceDescs \subseteq DescsAt(ResourceOf(filtered[i]))
                  /\ \A k \in ResourceOf(filtered[i]) :
                        emitted[k].value = results[i].stats[1].Timestamp
        /\ scrapeErrors = Cardinality(FailedSlots)
        /\ pc = "done" => emitted[Len(emitted)].value = Cardinality(FailedSlots)

\* a cycle is over in which one fetch failed and the Stats of a sibling were obtained
C2_Witness ==
    /\ pc = "done"
    /\ ~listErr
    /\ \E i, j \in Slots : results[i].err # Nil /\ results[j].stats # NilStats
                           /\ lookup[j] = "miss" /\ i < j

\* C3: at every moment of a cycle the number of GetContainerStats calls in
\* flight is at most max_concurrent.
C3_BoundedInFlight == InFlight <= cfg.MaxConcurrent

\* the dispatch loop waits for a slot while max_concurrent = 2 fetches are in flight
C3_Witness ==
    /\ pc = "acquire"
    /\ cfg.MaxConcurrent = 2
    /\ InFlight = 2
    /\ sem = 2

\* C4: every state or resource measurement emitted in a cycle belongs to a
\* resource that is in the cycle's List result and is accepted by the Filter.
C4_OnlyListedAndAccepted ==
    /\ \A k \in 1..Len(emitted) :
          ~IsSelf(emitted[k]) =>
              \E j \in 1..Len(containers) :
                  /\ Match(TheFilter, containers[j])
                  /\ Belongs(emitted[k], containers[j])
    /\ \A r \in runtime :
          (\A j \in 1..Len(containers) :
               containers[j].ID = Identity(r).ID => ~Match(TheFilter, containers[j]))
          => \A k \in 1..Len(emitted) : \A st \in LifeStates :
                 ~Belongs(emitted[k], ContainerOf(r, st))

\* a cycle is over that emitted measurements of a listed resource while the
\* cache still holds a non-expired entry for a resource that was not listed
C4_Witness ==
    /\ pc = "done"
    /\ ~listErr
    /\ Len(emitted) > 2
    /\ \E id \in DOMAIN entries :
          /\ now - entries[id].timestamp <= cfg.CacheTTL
          /\ \A j \in 1..Len(containers) : containers[j].ID # id

\* C5: in a cycle whose List call failed, exactly the two self measurements
\* are emitted (the duration and an error count of 1), no fetch is dispatched,
\* and the cache is neither consulted nor written: its entries and its hit and
\* miss counters are what they were when the cycle started.
C5_ListFailureSelfOnly ==
    listErr =>
        /\ Len(emitted) = 2
        /\ emitted[1].desc = "exporter_scrape_duration_seconds"
        /\ emitted[2].desc = "exporter_scrape_errors_total"
        /\ emitted[2].value = 1
        /\ fetchCalls = <<>> /\ worker = <<>> /\ sem = 0 /\ wg = 0
        /\ getCalls = <<>> /\ setCalls = 0
        /\ entries = cache0.entries /\ hits = cache0.hits /\ misses = cache0.misses

\* a second cycle fails to list while the cache holds an entry
C5_Witness == listErr /\ pc = "done" /\ cycle = 2 /\ entries # <<>>

\* C6: no measurement follows a self measurement in the output of a cycle, a
\* cycle that is still running has emitted no self measurement, and a cycle
\* that is over has emitted the duration once and the error count once, whether
\* List failed or not and whatever the fetches returned.
C6_SelfOnceAndLast ==
    /\ \A k \in 1..Len(emitted) :
          IsSelf(emitted[k]) => \A j \in k..Len(emitted) : IsSelf(emitted[j])
    /\ pc \in {"listing", "dispatch", "acquire", "await", "emit", "self"} =>
          \A k \in 1..Len(emitted) : ~IsSelf(emitted[k])
    /\ pc = "done" =>
          \A d \in Range(SelfDescs) :
              Cardinality({k \in 1..Len(emitted) : emitted[k].desc = d}) = 1

\* a cycle with one failed and one successful fetch has ended
C6_Witness ==
    /\ pc = "done" /\ ~listErr /\ Len(emitted) > 2
    /\ \E i, j \in Slots : results[i].err # Nil /\ results[j].stats # NilStats

\* C7 as stated: every cycle that is over has run EvictStale exactly once.
C7_EvictEveryCycle == pc = "done" => evictCalls = 1

\* C7, amended: a cycle whose List call succeeded runs EvictStale exactly
\* once, after every fetch has returned and the emission loop has ended and
\* before the self measurements; a cycle whose List call failed does not run it.
C7_EvictOnceAfterList ==
    /\ evictCalls <= 1
    /\ pc = "done" => evictCalls = (IF listErr THEN 0 ELSE 1)
    /\ pc = "self" => evictCalls = 1 /\ ~listErr
    /\ pc \in {"listing", "dispatch", "acquire", "await", "emit"} => evictCalls = 0
    /\ (evictCalls = 1 /\ pc # "idle") =>
          /\ \A i \in DOMAIN worker : worker[i] \in {"none", "done"}
          /\ eidx > Len(results)

\* a cycle has ended whose eviction removed an entry the cycle started with
C7_Witness ==
    /\ pc = "done" /\ ~listErr /\ evictCalls = 1
    /\ \E id \in DOMAIN cache0.entries : id \notin DOMAIN entries

\* C8: a filtered resource that is not running has no fetch dispatched, no
\* permit taken and no cache lookup (the hit and miss counters grow by one per
\* dispatched running resource only); once the emission loop has ended its
\* state-only measurements are emitted and it has no resource measurement,
\* whatever the cache holds for its ID.
C8_NotRunningStateOnly ==
    /\ \A i \in Slots :
          filtered[i].State # "running" =>
              /\ fetchCalls[i] = 0 /\ worker[i] = "none"
              /\ getCalls[i] = 0 /\ lookup[i] = "none"
              /\ Emitted =>
                    /\ StateOnlyDescs \subseteq DescsAt(StateOf(filtered[i]))
                    /\ ResourceOf(filtered[i]) = {}
    /\ (hits - cache0.hits) + (misses - cache0.misses)
          = Cardinality({i \in Slots : /\ filtered[i].State = "running"
                                        /\ (i < idx \/ (i = idx /\ pc = "acquire"))})

\* a cycle has ended that listed an exited resource the cache held a fresh
\* entry for
C8_Witness ==
    /\ pc = "done" /\ ~listErr /\ cfg.CacheEnabled
    /\ \E i \in Slots :
          /\ filtered[i].State # "running"
          /\ filtered[i].ID \in DOMAIN cache0.entries
          /\ emitNow - cache0.entries[filtered[i].ID].timestamp <= cfg.CacheTTL

\* C9: a running filtered resource whose cache lookup was a hit has no fetch
\* dispatched and takes no permit; its result holds the Stats the cache held
\* when the cycle started, and once the emission loop has ended its resource
\* measurements carry the values of those Stats and the labels of the listed
\* container.
C9_CacheHitReuses ==
    \A i \in Slots :
        lookup[i] = "hit" =>
            /\ filtered[i].State = "running"
            /\ fetchCalls[i] = 0 /\ worker[i] = "none"
            /\ cfg.CacheEnabled /\ filtered[i].ID \in DOMAIN cache0.entries
            /\ results[i].stats = cache0.entries[filtered[i].ID].stats
            /\ results[i].container = filtered[i]
            /\ Emitted =>
                  /\ FullResourceDescs \subseteq DescsAt(ResourceOf(filtered[i]))
                  /\ \A k \in ResourceOf(filtered[i]) :
                        emitted[k].value = cache0.entries[filtered[i].ID].stats[1].Timestamp

\* a cycle has ended that served one resource from Stats captured at an
\* earlier tick and fetched another
C9_Witness ==
    /\ pc = "done" /\ ~listErr
    /\ \E i, j \in Slots :
          /\ lookup[i] = "hit" /\ lookup[j] = "miss"
          /\ results[i].stats[1].Timestamp < emitNow

\* C10 as stated: a cycle that is over went through filtering, dispatching,
\* awaiting and emitting.
C10_EveryPhaseVisited ==
    pc = "done" => {"listing", "filtering", "dispatch", "await", "emit"} \subseteq visited

\* C10, amended: under a configuration Validate accepts, when every call
\* returns, a started cycle reaches Done, a dispatch loop waiting for a permit
\* gets one, and the join barrier is passed. A cycle whose List call returned
\* a list went through filtering, dispatching, awaiting and emitting; a cycle
\* whose List call returned an error went from listing straight to Done.
C10_CycleTerminates ==
    /\ (pc = "listing") ~> (pc = "done")
    /\ (pc = "acquire") ~> (pc = "dispatch")
    /\ (pc = "await") ~> (pc = "emit")
    /\ [](pc = "done" /\ ~listErr =>
             visited = {"listing", "filtering", "dispatch", "await", "emit", "done"})
    /\ [](pc = "done" /\ listErr => visited = {"listing", "done"})

\* a cycle has ended that fetched two resources through a single permit
C10_Witness ==
    /\ pc = "done" /\ ~listErr /\ cfg.MaxConcurrent = 1
    /\ Cardinality({i \in Slots : fetchCalls[i] = 1}) = 2

\* C11: Collect never panics while it emits, whatever the ID, name, labels,
\* health and start time of the containers ListContainers returned.
C11_EmissionNeverFaults == pc # "panic"

\* an exclude rule of Filter f matches container c on some dimension
ExcludeMatches(f, c) ==
    \/ matchesLabels(c.Labels, f.excludeLabels)
    \/ matchesAny(c.Name, f.excludeNames)
    \/ matchesAny(c.Image, f.excludeImages)

\* an include rule of Filter f matches container c on some dimension
IncludeMatches(f, c) ==
    \/ matchesLabels(c.Labels, f.includeLabels)
    \/ matchesAny(c.Name, f.includeNames)
    \/ matchesAny(c.Image, f.includeImages)

\* Filter f holds no include rule on any dimension
NoIncludeRule(f) ==
    /\ DOMAIN f.includeLabels = {}
    /\ Len(f.includeNames) = 0
    /\ Len(f.includeImages) = 0

\* C12: when an exclude rule of the Filter matches the container on its
\* labels, its name or its image, Match returns false, whatever the include
\* rules say.
C12_ExcludeWins ==
    last.op = "Match" => (ExcludeMatches(TheFilter, last.c) => last.out = FALSE)

\* Match was called on a container that an exclude rule and an include rule
\* both match
C12_Witness ==
    /\ last.op = "Match"
    /\ ExcludeMatches(TheFilter, last.c) /\ IncludeMatches(TheFilter, last.c)
    /\ last.out = FALSE

\* C13: for a container no exclude rule matches, Match returns true when the
\* Filter holds no include rule at all, and otherwise returns true exactly
\* when an include rule matches on the labels, the name or the image.
C13_IncludeDecides ==
    (last.op = "Match" /\ ~ExcludeMatches(TheFilter, last.c)) =>
        last.out = (NoIncludeRule(TheFilter) \/ IncludeMatches(TheFilter, last.c))

\* Match rejected a container that no exclude rule matches, because include
\* rules exist and none matches it
C13_Witness ==
    /\ last.op = "Match" /\ ~ExcludeMatches(TheFilter, last.c)
    /\ ~NoIncludeRule(TheFilter) /\ last.out = FALSE

\* a pattern text of the configuration that regexp.Compile rejects
HasBadPattern(fc) ==
    \E ps \in {fc.Include.Names, fc.Exclude.Names, fc.Include.Images, fc.Exclude.Images} :
        \E k \in 1..Len(ps) : ~ps[k].ok

\* every pattern the Filter holds is a compiled *regexp.Regexp, one per
\* pattern text of the configuration
AllCompiled(f, fc) ==
    /\ f.includeNames = [k \in 1..Len(fc.Include.Names) |-> Compile(fc.Include.Names[k])]
    /\ f.excludeNames = [k \in 1..Len(fc.Exclude.Names) |-> Compile(fc.Exclude.Names[k])]
    /\ f.includeImages = [k \in 1..Len(fc.Include.Images) |-> Compile(fc.Include.Images[k])]
    /\ f.excludeImages = [k \in 1..Len(fc.Exclude.Images) |-> Compile(fc.Exclude.Images[k])]

\* C14: NewFilter returns an error and no Filter exactly when some include or
\* exclude name or image pattern does not compile; a Filter it returns holds
\* every pattern compiled, and Match, which is only ever called on such a
\* Filter, returns a boolean.
C14_BadPatternRejected ==
    /\ last.op = "NewFilter" =>
          /\ HasBadPattern(cfg.Filters) <=> last.err # Nil
          /\ last.err # Nil => last.f = Nil /\ pc = "rejected"
          /\ last.err = Nil => AllCompiled(last.f, cfg.Filters)
    /\ last.op = "Match" =>
          /\ ~HasBadPattern(cfg.Filters)
          /\ AllCompiled(TheFilter, cfg.Filters)
          /\ last.out \in BOOLEAN

\* NewFilter rejected a configuration whose bad pattern follows a good one
C14_Witness ==
    /\ last.op = "NewFilter" /\ last.err # Nil /\ pc = "rejected"
    /\ Len(cfg.Filters.Exclude.Images) = 2

\* the age, at the time of the last direct call, of the entry stored under id
Age(ents, id) == last.pre.now - ents[id].timestamp

\* C15: on an enabled cache Get(key) reports found exactly when an entry is
\* stored under key and its age is at most the ttl, in which case it returns
\* the stored Stats; Get leaves the stored entries as they are, expired ones
\* included.
C15_GetFoundIffFresh ==
    (last.op = "Get" /\ cfg.CacheEnabled) =>
        /\ last.ok <=> (/\ last.id \in DOMAIN last.pre.entries
                        /\ Age(last.pre.entries, last.id) <= cfg.CacheTTL)
        /\ last.ok => last.stats = last.pre.entries[last.id].stats
        /\ ~last.ok => last.stats = NilStats
        /\ entries = last.pre.entries

\* a Get hit an entry whose age is exactly the ttl while an expired entry is
\* still stored under the other key
C15_Witness ==
    /\ last.op = "Get" /\ cfg.CacheEnabled /\ last.ok
    /\ Age(entries, last.id) = cfg.CacheTTL
    /\ \E id \in DOMAIN entries : Age(entries, id) > cfg.CacheTTL

\* C16: a cache constructed disabled stores nothing whatever is called on it,
\* every Get reports a miss and adds exactly one to the miss counter, and the
\* hit counter stays 0.
C16_DisabledCacheInert ==
    ~cfg.CacheEnabled =>
        /\ entries = <<>>
        /\ hits = 0
        /\ misses = calls.Get
        /\ last.op = "Get" =>
              /\ ~last.ok /\ last.stats = NilStats
              /\ misses = last.pre.misses + 1

\* on a disabled cache a Get follows a Set of the same key
C16_Witness ==
    /\ ~cfg.CacheEnabled /\ pc = "idle"
    /\ last.op = "Get" /\ last.id \in DOMAIN calls.latest
    /\ calls.Get >= 2 /\ calls.Evict >= 1

\* C17: the hit and miss counters never decrease; a Get adds one to the hit
\* counter when it reports found and one to the miss counter when it does not,
\* and changes nothing else of the two; Set, Evict and EvictStale leave both
\* unchanged; so the two counters add up to the number of Get calls made.
C17_CountersCountGets ==
    /\ [](hits + misses = calls.Get)
    /\ [](last.op = "Get" =>
             /\ hits = last.pre.hits + (IF last.ok THEN 1 ELSE 0)
             /\ misses = last.pre.misses + (IF last.ok THEN 0 ELSE 1))
    /\ [](last.op \in {"Set", "Evict", "EvictStale"} =>
             hits = last.pre.hits /\ misses = last.pre.misses)
    /\ [][hits' >= hits /\ misses' >= misses]_vars

\* hits and misses have both been counted, and other calls were made
C17_Witness ==
    /\ pc = "idle" /\ hits >= 1 /\ misses >= 1
    /\ calls.Set >= 1 /\ last.op = "EvictStale"

\* C18: EvictStale removes the entries older than the ttl and no other, and
\* leaves the entries it keeps as they were: after it nothing stored is older
\* than the ttl, and every entry a Get would report found is still stored.
C18_EvictStaleExact ==
    last.op = "EvictStale" =>
        /\ DOMAIN entries = {id \in DOMAIN last.pre.entries :
                                Age(last.pre.entries, id) <= cfg.CacheTTL}
        /\ \A id \in DOMAIN entries : entries[id] = last.pre.entries[id]
        /\ \A id \in DOMAIN entries : Age(entries, id) <= cfg.CacheTTL
        /\ \A id \in CacheKeys :
              Get(last.pre.entries, cfg.CacheEnabled, cfg.CacheTTL, last.pre.now, id).ok
                  => id \in DOMAIN entries

\* EvictStale removed an expired entry and kept one whose age is exactly the ttl
C18_Witness ==
    /\ last.op = "EvictStale"
    /\ \E id \in DOMAIN last.pre.entries : id \notin DOMAIN entries
    /\ \E id \in DOMAIN entries : Age(entries, id) = cfg.CacheTTL

\* C19: on an enabled cache Set(key, stats) stores stats under key stamped
\* with the current time, replacing what was there, and touches no other key;
\* Evict(key) removes the entry of key and touches no other key; so a Get(key)
\* within the ttl of the latest Set(key) that no Evict(key) followed returns
\* the Stats of that Set, and a Get(key) after an Evict(key) with no later
\* Set(key) misses.
C19_SetOverwritesEvictRemoves ==
    cfg.CacheEnabled =>
        /\ last.op = "Set" =>
              /\ last.id \in DOMAIN entries
              /\ entries[last.id] = [stats |-> last.stats, timestamp |-> last.pre.now]
              /\ DOMAIN entries = DOMAIN last.pre.entries \cup {last.id}
              /\ \A id \in DOMAIN entries \ {last.id} : entries[id] = last.pre.entries[id]
        /\ last.op = "Evict" =>
              /\ DOMAIN entries = DOMAIN last.pre.entries \ {last.id}
              /\ \A id \in DOMAIN entries : entries[id] = last.pre.entries[id]
        /\ last.op = "Get" =>
              IF /\ last.id \in DOMAIN calls.latest
                 /\ last.pre.now - calls.latest[last.id].at <= cfg.CacheTTL
              THEN last.ok /\ last.stats = calls.latest[last.id].stats
              ELSE ~last.ok

\* a Get returned the Stats of the second of two Sets of the same key (no
\* eviction was run and one key is stored), the second Set later than the first
C19_Witness ==
    /\ cfg.CacheEnabled /\ last.op = "Get" /\ last.ok
    /\ calls.Set = 2 /\ calls.Evict = 0 /\ calls.EvictStale = 0
    /\ DOMAIN entries = {last.id}
    /\ entries[last.id].timestamp > 1
    /\ last.stats = calls.latest[last.id].stats

\* C20: under every interleaving of concurrent Get, Set, Evict and EvictStale
\* calls, a goroutine reads the entry map only while it holds the shared lock
\* and writes it only while it holds the exclusive lock, no read or write of
\* the map overlaps a write of it, and a Get reports a miss or a Stats value
\* that some Set call stored under that key.
C20_MapAccessUnderLock ==
    /\ \A t \in Threads : Reading(t) => t \in mu.readers
    /\ \A t \in Threads : Writing(t) => mu.writer = t
    /\ \A t \in Threads : \A u \in Threads \ {t} : ~(Writing(t) /\ (Reading(u) \/ Writing(u)))
    /\ (last.op = "Get" /\ last.ok) => <<last.id, last.stats>> \in calls.stored

\* a Get has returned a hit for a key while another goroutine is in the middle
\* of a Set of that key with other Stats, which it started before the Get returned
C20_Witness ==
    /\ last.op = "Get" /\ last.ok
    /\ \E t \in Threads :
          /\ Writing(t) /\ thr[t].op = "Set"
          /\ thr[t].id = last.id /\ thr[t].stats # last.stats
          /\ entries[last.id].stats = last.stats

\* the GetContainerStats calls in flight, over all the Collect calls under way
TotalInFlight ==
    Cardinality({ki \in Collects \X (1..Cardinality(Resources)) :
                    /\ ki[2] \in DOMAIN cyc[ki[1]].worker
                    /\ cyc[ki[1]].worker[ki[2]] = "fetching"})

\* C21: at every moment the number of GetContainerStats calls in flight for
\* one ContainerCollector, counted over all of its Collect calls that run at
\* the same time, is at most max_concurrent.
C21_BoundedAcrossCycles == TotalInFlight <= cfg.MaxConcurrent

\* the number of label values of the last constructed measurement is its
\* descriptor's number of label names
WellFormed == Len(last.lv) = Len(DescLabelNames(last.desc))

\* C22: constructing a measurement whose number of label values differs from
\* its descriptor's number of label names does not end the cycle: nothing is
\* sent for it, what was sent before stays sent, and a well-formed measurement
\* constructed before or after it is sent.
C22_MalformedDropped ==
    /\ pc # "panic"
    /\ last.op = "SendSafe" =>
          /\ ~WellFormed => emitted = last.pre
          /\ WellFormed =>
                emitted = last.pre \o <<[desc |-> last.desc, value |-> 1,
                                         scaled |-> FALSE, lv |-> last.lv]>>

\* a well-formed measurement was sent after a malformed one was dropped, which
\* itself followed a well-formed one
C22_Witness ==
    /\ last.op = "SendSafe" /\ WellFormed
    /\ calls.Send = 3
    /\ Len(emitted) = 2
    /\ emitted[1].desc = "container_info" /\ emitted[2].desc = "container_fs_reads_total"

\* the field of ContainerLabels a label name stands for
FieldOf(labels, name) ==
    CASE name = "container_name" -> labels.ContainerName
      [] name = "compose_service" -> labels.ComposeService
      [] name = "compose_project" -> labels.ComposeProject
      [] name = "image" -> labels.Image

\* the descriptors of the measurements of a container
ContainerDescNames == ResourceDescNames \cup Range(StateDescs)

\* C23: ContainerLabels.Values() returns exactly 4 values, name,
\* compose service, compose project and image in this order, whichever
\* identity fields are empty; the j-th value is the value of the j-th name of
\* LabelNames(), and LabelNames() is the first four label names of every
\* container measurement descriptor.
C23_ValuesFixedOrder ==
    /\ LabelNames = <<"container_name", "compose_service", "compose_project", "image">>
    /\ \A d \in ContainerDescNames :
          Len(DescLabelNames(d)) >= 4 /\ SubSeq(DescLabelNames(d), 1, 4) = LabelNames
    /\ last.op = "ExtractLabels" =>
          /\ Len(last.values) = 4
          /\ last.values[1] = SanitizeLabelValue(last.c.Name)
          /\ last.values[2] = SanitizeLabelValue(MapGet(last.c.Labels, LabelComposeService))
          /\ last.values[3] = SanitizeLabelValue(MapGet(last.c.Labels, LabelComposeProject))
          /\ last.values[4] = SanitizeLabelValue(last.c.Image)
          /\ \A j \in 1..4 : last.values[j] = FieldOf(last.labels, LabelNames[j])

\* the values of a container without name and compose labels: three empty
\* values and then the image
C23_Witness ==
    /\ last.op = "ExtractLabels"
    /\ last.c.Name = Empty /\ last.c.Labels = <<>> /\ last.c.Image # Empty
    /\ last.values = <<Empty, Empty, Empty, <<"w", "e", "b">>>>

\* C24: SanitizeLabelValue is idempotent, and what it returns holds only
\* characters of the safe set (alphanumeric and _ : / . @ - =).
C24_SanitizeIdempotent ==
    last.op = "SanitizeLabelValue" =>
        /\ last.again = last.out
        /\ \A k \in 1..Len(last.out) : last.out[k] \in SafeChars

\* a string with white space at both ends and inside and an unsafe character
\* was sanitised, to something else than itself
C24_Witness ==
    /\ last.op = "SanitizeLabelValue"
    /\ last.x = <<" ", "!", " ">>
    /\ last.out = <<"_">>

\* the raw block the last parse was given holds this key
Has(key) == key \in DOMAIN last.mem.Stats

\* inactive_file is present in the raw block, under its name or its total_ name
InactivePresent == Has(<<"inactive_file">>) \/ Has(<<"total_inactive_file">>)

\* the raw value of inactive_file, the plain name going first
InactiveValue ==
    IF Has(<<"inactive_file">>) THEN last.mem.Stats[<<"inactive_file">>]
    ELSE last.mem.Stats[<<"total_inactive_file">>]

\* C25: the working set is usage - inactive_file whenever inactive_file is
\* present and not larger than usage, and is usage when inactive_file is
\* absent or larger than usage; it is never negative and never above usage.
C25_WorkingSetClamped ==
    last.op = "parseMemoryStats" =>
        /\ (InactivePresent /\ InactiveValue <= last.mem.Usage) =>
              last.s.MemoryWorkingSet = last.mem.Usage - InactiveValue
        /\ (~InactivePresent \/ InactiveValue > last.mem.Usage) =>
              last.s.MemoryWorkingSet = last.mem.Usage
        /\ last.s.MemoryWorkingSet >= 0
        /\ last.s.MemoryWorkingSet <= last.mem.Usage

\* C26: the resident-set field is the raw rss value whenever rss is present,
\* anon present or not, is the raw anon value when rss is absent and anon is
\* present, and is 0 when both are absent.
C26_ResidentSetPrefersRss ==
    last.op = "parseMemoryStats" =>
        /\ Has(<<"rss">>) => last.s.MemoryRSS = last.mem.Stats[<<"rss">>]
        /\ (~Has(<<"rss">>) /\ Has(<<"anon">>)) => last.s.MemoryRSS = last.mem.Stats[<<"anon">>]
        /\ (~Has(<<"rss">>) /\ ~Has(<<"anon">>)) => last.s.MemoryRSS = 0

\* a block with both rss and anon, of different values, gave the rss value
C26_Witness ==
    /\ last.op = "parseMemoryStats"
    /\ Has(<<"rss">>) /\ Has(<<"anon">>)
    /\ last.mem.Stats[<<"rss">>] = 1 /\ last.mem.Stats[<<"anon">>] = 2
    /\ last.s.MemoryRSS = 1

\* the locals of a Collect call as the call makes them
FreshLocals ==
    /\ scrapeErrors = 0 /\ start <= now
    /\ containers = <<>> /\ filtered = <<>> /\ results = <<>> /\ worker = <<>>
    /\ idx = 1 /\ sem = 0 /\ wg = 0 /\ emitted = <<>> /\ ~listErr

\* C27: nothing but the cache carries over from one cycle to the next: a
\* Collect call starts with fresh locals and lists at once, however the call
\* before ended (List failed, fetches failed, or all went well), leaving the
\* cache as it found it; and the error tally a call ends with and sends counts
\* its own failures only, 1 for a failed List and otherwise the number of
\* failed fetches.
C27_NothingCarriedOver ==
    /\ [](pc = "listing" => FreshLocals)
    /\ [](pc = "done" =>
             /\ scrapeErrors = IF listErr THEN 1 ELSE Cardinality(FailedSlots)
             /\ ErrorsEmitted = scrapeErrors)
    /\ [][cycle' # cycle =>
             /\ pc = "idle" /\ pc' = "listing" /\ cycle' = cycle + 1
             /\ entries' = entries /\ hits' = hits /\ misses' = misses]_vars

\* a cycle with two successful fetches and no error has ended; the List of the
\* cycle before it had failed
C27_Witness ==
    /\ pc = "done" /\ cycle = 2
    /\ last.op = "Collect" /\ last.listErr /\ last.errors = 1
    /\ ~listErr /\ scrapeErrors = 0
    /\ Len(results) = 2
    /\ \A i \in Slots : results[i].stats # NilStats /\ lookup[i] = "miss"

\* C28: exporter_scrape_errors_total is a counter: the value a cycle emits for
\* the collector is never lower than the value an earlier cycle of the same
\* process emitted.
C28_ErrorsTotalMonotonic ==
    (pc = "done" /\ last.op = "Collect") => ErrorsEmitted >= last.highest

\* C29: the health endpoint answers every request with status 200, whether
\* auth is enabled or not and whether the Docker daemon is reachable or not.
C29_HealthAlwaysOK ==
    (last.op = "Request" /\ last.req.path = HealthPath) => last.status = 200

\* slot i was handed to a goroutine and the goroutine has written the result
\* or the error of its fetch and has ended
Joined(i) ==
    /\ worker[i] \in {"none", "done"}
    /\ worker[i] = "done" =>
          /\ fetchCalls[i] = 1
          /\ results[i].err # Nil \/ results[i].stats # NilStats

\* C30: no state or resource measurement of a cycle is emitted before every
\* fetch dispatched in that cycle has returned a result or an error: once the
\* cycle is past wg.Wait(), and whenever its output holds a state or resource
\* measurement, no goroutine is fetching or about to write its slot, and the
\* dispatch loop has handled every filtered container.
C30_JoinBarrier ==
    (\/ pc = "emit"
     \/ \E k \in 1..Len(emitted) : IsState(emitted[k]) \/ IsResource(emitted[k])) =>
        /\ idx > Len(filtered)
        /\ wg = 0 /\ sem = 0
        /\ \A i \in Slots : Joined(i)

\* measurements are being emitted in a cycle that dispatched two fetches, one
\* of which returned an error and the other Stats
C30_Witness ==
    /\ pc = "emit" /\ eidx > 1 /\ emitted # <<>>
    /\ \E i, j \in Slots :
          /\ worker[i] = "done" /\ results[i].err # Nil
          /\ worker[j] = "done" /\ results[j].stats # NilStats

\* the fetch of slot i has returned Stats
FetchedOK(i) ==
    /\ fetchCalls[i] > 0
    /\ worker[i] \in {"returned", "released", "done"}
    /\ results[i].err = Nil

\* a state or resource measurement of this cycle has been sent, or the
\* emission loop is about to send the first
EmissionBegun ==
    \/ pc = "emit"
    \/ \E k \in 1..Len(emitted) : IsState(emitted[k]) \/ IsResource(emitted[k])

\* the goroutine of slot i gets an error from GetContainerStats in this step
FetchFailsNow(i) ==
    worker[i] = "fetching" /\ worker'[i] = "returned" /\ results'[i].err # Nil

\* C31: for each resource whose fetch succeeds, Cache.Set(id, stats) has
\* completed before the first state or resource measurement of the cycle is
\* emitted (one Set per successful fetch, and on an enabled cache the entry of
\* the ID holds the fetched Stats when emission begins); a fetch that fails
\* performs no Set and leaves the cache as it was.
C31_SetBeforeEmission ==
    /\ [](EmissionBegun =>
            /\ setCalls = Cardinality({i \in Slots : FetchedOK(i)})
            /\ \A i \in Slots : fetchCalls[i] > 0 => worker[i] = "done"
            /\ (pc = "emit" /\ cfg.CacheEnabled) =>
                  \A i \in Slots : FetchedOK(i) =>
                      /\ filtered[i].ID \in DOMAIN entries
                      /\ entries[filtered[i].ID].stats = results[i].stats)
    /\ [][\A i \in Slots : FetchFailsNow(i) =>
              (entries' = entries /\ setCalls' = setCalls)]_vars

\* emission has begun on an enabled cache after one fetch stored its Stats and
\* another failed on an ID whose expired entry is still in the cache
C31_Witness ==
    /\ pc = "emit" /\ cfg.CacheEnabled /\ emitted # <<>>
    /\ \E i, j \in Slots :
          /\ FetchedOK(i) /\ entries[filtered[i].ID].stats = results[i].stats
          /\ fetchCalls[j] > 0 /\ results[j].err # Nil
          /\ filtered[j].ID \in DOMAIN entries

\* the goroutines that hold a permit: started, and not yet past <-sem
Holders == {i \in Slots : worker[i] \in {"fetching", "returned"}}

\* C32: every permit acquired for a dispatched fetch is released exactly once
\* when that fetch returns, whether it succeeded or failed; a permit is
\* acquired before the fetch starts; and past the join barrier no permit is
\* held. The permits in sem are those of the goroutines that have not yet
\* released, a goroutine starts in the step that takes a free permit, and it
\* gives back one permit in the step that follows the return of its fetch.
C32_PermitsBalanced ==
    /\ [](/\ sem = Cardinality(Holders)
          /\ sem <= cfg.MaxConcurrent \/ pc \in {"load", "rejected"}
          /\ pc \in {"emit", "self", "done", "idle"} => sem = 0)
    /\ [][/\ \A i \in DOMAIN worker \cap DOMAIN worker' :
                /\ (worker[i] = "none" /\ worker'[i] = "fetching") =>
                      (sem < cfg.MaxConcurrent /\ sem' = sem + 1)
                /\ (worker[i] = "returned" /\ worker'[i] = "released") =>
                      sem' = sem - 1
           /\ worker' = worker => sem' = sem]_vars

\* with a single permit two fetches have run one after the other, the first
\* of which failed, and the join barrier is passed
C32_Witness ==
    /\ pc = "emit" /\ cfg.MaxConcurrent = 1 /\ sem = 0
    /\ Len(filtered) = 2
    /\ fetchCalls[1] = 1 /\ results[1].err # Nil
    /\ fetchCalls[2] = 1 /\ results[2].err = Nil

-----------------------------------------------------------------------------
(* internal/docker: a label rule set on its own. parseLabels(raw) of one
   include or exclude list, then matchesLabels on the labels of a container *)

TierKey == <<"tier">>

\* the texts of a labels list: a key alone, key=value, for two keys
LabelRuleTexts ==
    {LabelComposeService, LabelComposeService \o <<"=", "s", "v", "c">>,
     TierKey, TierKey \o <<"=", "w">>}

\* labels lists of at most MaxRules texts
RuleListInputs ==
    UNION {[1..n -> LabelRuleTexts] : n \in 0..MaxRules}

\* the label maps of a container: each of the two keys absent, empty or set
ContainerLabelInputs ==
    UNION {[K -> {Empty, <<"s", "v", "c">>, <<"w">>}] :
              K \in SUBSET {LabelComposeService, TierKey}}

RuleInit ==
    /\ cfg \in {[BaseConfig EXCEPT !.Filters.Include.Labels = raw] : raw \in RuleListInputs}
    /\ pc = "idle"
    /\ scrapes = 0
    /\ runtime = Resources
    /\ Fresh

\* matchesLabels(c.Labels, f.includeLabels) for the Filter of this configuration
MatchesLabelsCall ==
    /\ pc = "idle"
    /\ \E labels \in ContainerLabelInputs :
          last' = [op |-> "matchesLabels", labels |-> labels,
                   rules |-> parseLabels(cfg.Filters.Include.Labels),
                   out |-> matchesLabels(labels, parseLabels(cfg.Filters.Include.Labels))]
    /\ pc' = "matched"
    /\ UNCHANGED <<cfg, now, cycle, start, containers, filtered, idx, results, worker,
                   sem, wg, scrapeErrors, emitNow, eidx, emitted, entries, hits,
                   misses, listCalls, getCalls, fetchCalls, setCalls, evictCalls,
                   listErr, lookup, cache0, visited, runtime, scrapes, calls, thr, mu,
                   cyc, heap, descIDs>>

RuleNext == MatchesLabelsCall

RuleSpec == RuleInit /\ [][RuleNext]_vars

\* the container's labels satisfy the rule of this key: the key is present,
\* and the rule value is empty or equal to the container's value
KeySatisfied(rules, labels, key) ==
    /\ key \in DOMAIN labels
    /\ (rules[key] = Empty \/ labels[key] = rules[key])

\* C33: a label rule set matches a resource when each configured label key is
\* present on the resource with an empty (wildcard) rule value or a rule value
\* equal to the resource's value; with two or more keys, a resource that
\* satisfies only some of the keys does not match.
C33_EveryKeyMustMatch ==
    (last.op = "matchesLabels" /\ DOMAIN last.rules # {}) =>
        last.out = (\A key \in DOMAIN last.rules :
                        KeySatisfied(last.rules, last.labels, key))

\* C33, amended: a label rule set matches a resource exactly when at least one
\* configured label key is present on the resource with an empty (wildcard)
\* rule value or a rule value equal to the resource's value.
C33_SomeKeyMustMatch ==
    last.op = "matchesLabels" =>
        last.out = (\E key \in DOMAIN last.rules :
                        KeySatisfied(last.rules, last.labels, key))

\* a rule set of two keys matched a container that satisfies one key and
\* lacks the other
C33_Witness ==
    /\ last.op = "matchesLabels" /\ last.out
    /\ DOMAIN last.rules = {LabelComposeService, TierKey}
    /\ KeySatisfied(last.rules, last.labels, LabelComposeService)
    /\ TierKey \notin DOMAIN last.labels

\* the IDs of the listed containers the Filter rejects
FilteredOutIDs ==
    {containers[k].ID : k \in {n \in 1..Len(containers) : ~Match(TheFilter, containers[n])}}

\* C34: in one cycle each running filtered resource has Cache.Get called
\* exactly once, and GetContainerStats called exactly once if that Get missed
\* and zero times if it hit; a failed or timed-out fetch is never retried
\* within the cycle, and non-running or filtered-out resources are never
\* fetched.
C34_OneAttemptPerCycle ==
    /\ \A i \in Slots :
          /\ getCalls[i] <= 1 /\ fetchCalls[i] <= 1
          /\ filtered[i].State # "running" => (getCalls[i] = 0 /\ fetchCalls[i] = 0)
          /\ lookup[i] = "hit" => fetchCalls[i] = 0
          /\ fetchCalls[i] = 1 => (getCalls[i] = 1 /\ lookup[i] = "miss")
          /\ filtered[i].ID \notin FilteredOutIDs
    /\ (pc \in {"await", "emit", "self", "done"} /\ ~listErr) =>
          \A i \in Slots : filtered[i].State = "running" =>
              /\ getCalls[i] = 1
              /\ lookup[i] \in {"hit", "miss"}
              /\ fetchCalls[i] = (IF lookup[i] = "miss" THEN 1 ELSE 0)

\* the dispatch loop of a cycle is over: one resource was served from the
\* cache and the one fetch of another failed
C34_Witness ==
    /\ pc = "emit"
    /\ \E i, j \in Slots :
          /\ lookup[i] = "hit" /\ fetchCalls[i] = 0
          /\ lookup[j] = "miss" /\ fetchCalls[j] = 1 /\ results[j].err # Nil

-----------------------------------------------------------------------------
(* internal/docker/labels.go: the two call sites of label extraction, one on
   a list record and one on a stats record *)

\* the Stats records ExtractLabelsFromStats is called on
LabelStatsInputs ==
    {[ContainerID |-> Empty, Name |-> n, Image |-> i, Labels |-> l,
      Networks |-> {}, BlockIO |-> {}, Timestamp |-> 0] :
        n \in IdentityTextInputs, i \in IdentityTextInputs, l \in LabelMapInputs}

\* docker.ExtractLabels(c) and docker.ExtractLabelsFromStats(s)
ExtractBothCall ==
    /\ pc = "idle"
    /\ \E c \in LabelContainerInputs, s \in LabelStatsInputs :
          last' = [op |-> "ExtractBoth", c |-> c, s |-> s,
                   fromList |-> ExtractLabels(c),
                   fromStats |-> ExtractLabelsFromStats(s)]
    /\ pc' = "extracted"
    /\ UNCHANGED <<cfg, now, cycle, start, containers, filtered, idx, results, worker,
                   sem, wg, scrapeErrors, emitNow, eidx, emitted, entries, hits,
                   misses, listCalls, getCalls, fetchCalls, setCalls, evictCalls,
                   listErr, lookup, cache0, visited, runtime, scrapes, calls, thr, mu,
                   cyc, heap, descIDs>>

TwinNext == ExtractBothCall

TwinSpec == LabelInit /\ [][TwinNext]_vars

\* the list record and the stats record carry the same identity
SameIdentity(c, s) ==
    c.Name = s.Name /\ c.Image = s.Image /\ c.Labels = s.Labels

\* C35: label extraction gives the same result at both call sites: for every
\* list record and stats record with equal name, image and label set,
\* ExtractLabels(listRecord) equals ExtractLabelsFromStats(statsRecord), each
\* of the four values being the sanitized text of its own source field.
C35_SameAtBothCallSites ==
    (last.op = "ExtractBoth" /\ SameIdentity(last.c, last.s)) =>
        /\ last.fromList = last.fromStats
        /\ last.fromStats.ContainerName = SanitizeLabelValue(last.s.Name)
        /\ last.fromStats.Image = SanitizeLabelValue(last.s.Image)
        /\ last.fromStats.ComposeService =
              SanitizeLabelValue(MapGet(last.s.Labels, LabelComposeService))
        /\ last.fromStats.ComposeProject =
              SanitizeLabelValue(MapGet(last.s.Labels, LabelComposeProject))

\* both extractions were applied to one identity whose name and image need
\* sanitizing and which carries a compose service label
C35_Witness ==
    /\ last.op = "ExtractBoth" /\ SameIdentity(last.c, last.s)
    /\ last.c.Name = <<" ", "d", "!", "b">> /\ last.c.Image = <<" ", "d", "!", "b">>
    /\ LabelComposeService \in DOMAIN last.c.Labels
    /\ last.fromList = last.fromStats
    /\ last.fromStats.Image = <<"d", "_", "b">>

-----------------------------------------------------------------------------
(* internal/collector/cache.go: the *docker.Stats a caller hands to Set and
   receives from Get. A pointer is <<a>>, a the address of the object in
   heap; the nil pointer is NilStats *)

\* the object a pointer points to
Deref(ptr) == heap[ptr[1]]

\* the caller makes a Stats object and calls c.Set(id, &stats)
AliasSet ==
    /\ Len(heap) < MaxStats
    /\ \E id \in CacheKeys :
          /\ heap' = Append(heap, StatsOf(id, now))
          /\ entries' = Set(entries, cfg.CacheEnabled, now, id, <<Len(heap) + 1>>)
          /\ last' = [op |-> "Set", id |-> id, stats |-> <<Len(heap) + 1>>]
          /\ calls' = [calls EXCEPT !.Set = @ + 1,
                                    !.latest = [x \in DOMAIN @ \cup {id} |->
                                                   IF x = id THEN StatsOf(id, now) ELSE @[x]]]
    /\ UNCHANGED <<cfg, pc, now, cycle, start, containers, filtered, idx, results,
                   worker, sem, wg, scrapeErrors, emitNow, eidx, emitted, hits, misses,
                   listCalls, getCalls, fetchCalls, setCalls, evictCalls, listErr,
                   lookup, cache0, visited, runtime, scrapes, thr, mu, cyc, descIDs>>

\* the caller calls c.Get(id) and keeps the pointer it receives
AliasGet ==
    /\ \E id \in CacheKeys :
          LET got == Get(entries, cfg.CacheEnabled, cfg.CacheTTL, now, id)
          IN /\ last' = [op |-> "Get", id |-> id, stats |-> got.stats]
             /\ hits' = IF got.ok THEN hits + 1 ELSE hits
             /\ misses' = IF got.ok THEN misses ELSE misses + 1
             /\ calls' = [calls EXCEPT !.Get = @ + 1]
    /\ calls.Get < MaxStats
    /\ UNCHANGED <<cfg, pc, now, cycle, start, containers, filtered, idx, results,
                   worker, sem, wg, scrapeErrors, emitNow, eidx, emitted, entries,
                   listCalls, getCalls, fetchCalls, setCalls, evictCalls, listErr,
                   lookup, cache0, visited, runtime, scrapes, thr, mu, cyc, heap,
                   descIDs>>

\* the caller writes a field of the Stats it passed to Set or received from
\* Get, through the pointer it holds
AliasWrite ==
    /\ last.op \in {"Set", "Get"}
    /\ last.stats # NilStats
    /\ Deref(last.stats).Timestamp <= MaxTime
    /\ heap' = [heap EXCEPT ![last.stats[1]].Timestamp = @ + 1]
    /\ UNCHANGED <<cfg, pc, now, cycle, start, containers, filtered, idx, results,
                   worker, sem, wg, scrapeErrors, emitNow, eidx, emitted, entries,
                   hits, misses, listCalls, getCalls, fetchCalls, setCalls, evictCalls,
                   listErr, lookup, cache0, visited, runtime, scrapes, last, calls,
                   thr, mu, cyc, descIDs>>

AliasNext == AliasSet \/ AliasGet \/ AliasWrite

AliasSpec == CacheInit /\ [][AliasNext]_vars

\* C36: the Stats held in a CacheEntry is never shared by reference outside
\* the Cache: a change a caller makes to the Stats it passed to Set, or to the
\* Stats it received from Get, is not visible in the stored entry nor in the
\* result of any other Get. Every entry holds the Stats as they were when
\* they were stored.
C36_EntryNotShared ==
    \A id \in DOMAIN entries : Deref(entries[id].stats) = calls.latest[id]

\* the number of label values the claim gives for the family of a descriptor
LabelCount(desc) ==
    IF desc \in Range(NetworkDescs) \cup Range(BlockIODescs) THEN 5
    ELSE IF desc = "container_info" THEN 8
    ELSE IF desc \in Range(SelfDescs) THEN 1
    ELSE 4

\* the number of measurements the emission loop constructs for slot i
Constructed(i) ==
    IF results[i].err # Nil THEN 0
    ELSE (IF results[i].container.StartedAt # 0 THEN Len(StateDescs)
          ELSE Cardinality(StateOnlyDescs))
         + (IF results[i].stats = NilStats THEN 0
            ELSE Len(MemoryDescs) + Len(CPUDescs) + Len(PIDsDescs)
                 + Len(NetworkDescs) * Cardinality(results[i].stats[1].Networks)
                 + Len(BlockIODescs) * Cardinality(results[i].stats[1].BlockIO))

RECURSIVE ConstructedUpTo(_)
ConstructedUpTo(n) == IF n = 0 THEN 0 ELSE ConstructedUpTo(n - 1) + Constructed(n)

\* C37: every measurement constructed during a cycle is built with exactly as
\* many label values as its descriptor declares label names: 4 for the memory,
\* CPU, process-count and state families, 5 for network and block-I/O, 8 for
\* container info, 1 for the self-observability measurements; so no
\* measurement of a cycle is dropped for a label-count mismatch: what has been
\* sent is everything the emission loop and emitSelfMetrics constructed.
C37_LabelCountsMatch ==
    /\ \A k \in 1..Len(emitted) :
          /\ Len(emitted[k].lv) = LabelCount(emitted[k].desc)
          /\ Len(DescLabelNames(emitted[k].desc)) = LabelCount(emitted[k].desc)
    /\ (pc \in {"emit", "self"} /\ ~listErr) => Len(emitted) = ConstructedUpTo(eidx - 1)
    /\ (pc = "done" /\ ~listErr) =>
          Len(emitted) = ConstructedUpTo(Len(results)) + Len(SelfDescs)
    /\ (pc = "done" /\ listErr) => Len(emitted) = Len(SelfDescs)

\* a finished cycle has sent measurements of every family: per interface and
\* per device ones, the container info, and the self-observability pair
C37_Witness ==
    /\ pc = "done" /\ ~listErr
    /\ \E a, b, c, d \in 1..Len(emitted) :
          /\ emitted[a].desc \in Range(NetworkDescs) /\ Len(emitted[a].lv) = 5
          /\ emitted[b].desc \in Range(BlockIODescs) /\ Len(emitted[b].lv) = 5
          /\ emitted[c].desc = "container_info" /\ Len(emitted[c].lv) = 8
          /\ emitted[d].desc \in Range(PIDsDescs) /\ Len(emitted[d].lv) = 4
    /\ Len(emitted[Len(emitted)].lv) = 1

\* the position in filtered of the resource a state or resource measurement
\* is about
SlotOf(m) == CHOOSE i \in Slots : Belongs(m, filtered[i])

\* the positions in emitted of the state and resource measurements
PerResource == {k \in 1..Len(emitted) : IsState(emitted[k]) \/ IsResource(emitted[k])}

\* C38: within one cycle, state and resource measurements are emitted
\* resource by resource in the order of the filtered list (all measurements of
\* the resource at position i precede those of position i+1), independent of
\* the order in which the concurrent fetches complete. The state and resource
\* measurements come first in what a cycle sends, and from each to the next
\* the position of the resource never goes down. slot[k] is the position of
\* the resource whose four label values measurement k starts with, and 0 for
\* a self-observability measurement.
C38_EmittedInListOrder ==
    \A lvs \in {[i \in Slots |-> LvOf(filtered[i])]} :
    \A slot \in {[k \in 1..Len(emitted) |->
                     IF /\ Len(emitted[k].lv) >= 4
                        /\ \E i \in Slots : SubSeq(emitted[k].lv, 1, 4) = lvs[i]
                     THEN CHOOSE i \in Slots : SubSeq(emitted[k].lv, 1, 4) = lvs[i]
                     ELSE 0]} :
        \A k \in 2..Len(emitted) :
            slot[k] # 0 => (slot[k - 1] # 0 /\ slot[k - 1] <= slot[k])

\* both resources of a cycle were fetched, the second fetch returned before
\* the first, and the measurements of both have been emitted
C38_Witness ==
    /\ pc = "done" /\ Len(filtered) = 2
    /\ fetchCalls[1] = 1 /\ fetchCalls[2] = 1
    /\ results[1].stats # NilStats /\ results[2].stats # NilStats
    /\ results[2].stats[1].Timestamp < results[1].stats[1].Timestamp
    /\ \E k, l \in PerResource : SlotOf(emitted[k]) = 1 /\ SlotOf(emitted[l]) = 2

\* slot i is written in this step
SlotWritten(i) == results'[i] # results[i]

\* the dispatch loop, at position i, writes the slot of a container that is
\* not running or whose Stats the cache holds
DispatchWrites(i) ==
    /\ pc = "dispatch" /\ idx = i /\ worker[i] = "none"
    /\ filtered[i].State # "running" \/ lookup'[i] = "hit"

\* the goroutine started for slot i writes it on the return of its fetch
WorkerWrites(i) == worker[i] = "fetching" /\ worker'[i] = "returned"

\* C39: each per-resource result slot of a cycle is written by exactly one
\* party (the dispatch loop for a non-running or cache-hit resource, otherwise
\* exactly one fetch worker) and is read by the emission phase only after the
\* join barrier: no result slot is ever read while it can still be written,
\* and no two writers write the same slot. A goroutine exists only for a
\* running resource whose Get missed; a slot is written once, from its zero
\* value, by its own party and before emission; and while the emission loop
\* reads, the dispatch loop is over and every goroutine has ended.
C39_SlotsSingleWriter ==
    /\ [](\A i \in Slots :
            worker[i] # "none" => (filtered[i].State = "running" /\ lookup[i] = "miss"))
    /\ [](pc = "emit" =>
            /\ idx > Len(filtered)
            /\ \A i \in Slots : worker[i] \in {"none", "done"})
    /\ [][\A i \in DOMAIN results \cap DOMAIN results' :
              SlotWritten(i) =>
                  /\ results[i] = ZeroResult
                  /\ pc \in {"dispatch", "acquire", "await"}
                  /\ DispatchWrites(i) \/ WorkerWrites(i)]_vars

\* the emission loop has read the slot the dispatch loop wrote for a resource
\* that is not running and is at the slot a goroutine wrote
C39_Witness ==
    /\ pc = "emit" /\ eidx = 2 /\ Len(results) = 2
    /\ filtered[1].State # "running" /\ results[1].container = filtered[1]
    /\ worker[2] = "done" /\ results[2].container = filtered[2]

-----------------------------------------------------------------------------
(* cmd/exporter/main.go: after Load, the client, the filter and the cache,
   main makes the registry, registers the enabled collectors and starts the
   server. A descriptor is identified by its fully-qualified name, none of
   them having constant labels *)

\* metrics.AllContainerDescs()
AllContainerDescs ==
    Range(MemoryDescs) \cup {CPUDescs[k][1] : k \in 1..Len(CPUDescs)}
        \cup Range(NetworkDescs) \cup Range(BlockIODescs) \cup Range(StateDescs)

\* metrics.AllSystemDescs()
AllSystemDescs ==
    {"docker_containers_total", "docker_images_total", "docker_volumes_total",
     "docker_networks_total", "exporter_build_info", "exporter_up"}
        \cup Range(SelfDescs)

\* what ContainerCollector.Describe sends
ContainerDescribe == AllContainerDescs \cup Range(SelfDescs)

\* what SystemCollector.Describe sends
SystemDescribe == AllSystemDescs

\* Registry.Register of a collector that describes descs: an error when one of
\* them is already held, else they are added
Register(held, descs) ==
    IF descs \cap held # {} THEN [err |-> "duplicate", ids |-> held]
    ELSE [err |-> Nil, ids |-> held \cup descs]

\* collection.collectors.container and .system, each on or off (both on by
\* default), with the server configurations
StartConfigInputs ==
    {[Container |-> c, System |-> y] @@ base :
        c \in BOOLEAN, y \in BOOLEAN, base \in ServerConfigInputs}

StartInit ==
    /\ cfg \in StartConfigInputs
    /\ pc = "register-container"
    /\ scrapes = 0
    /\ runtime = Resources
    /\ Fresh

\* if cfg.Collection.Collectors.Container { registry.MustRegister(cc) }
RegisterContainerCollector ==
    /\ pc = "register-container"
    /\ IF cfg.Container
       THEN LET r == Register(descIDs, ContainerDescribe)
            IN /\ descIDs' = r.ids
               /\ last' = [op |-> "MustRegister", collector |-> "container",
                           descs |-> ContainerDescribe, held |-> descIDs, err |-> r.err]
               /\ pc' = IF r.err = Nil THEN "register-system" ELSE "panic"
       ELSE /\ pc' = "register-system"
            /\ descIDs' = descIDs
            /\ last' = last
    /\ UNCHANGED <<cfg, now, cycle, start, containers, filtered, idx, results, worker,
                   sem, wg, scrapeErrors, emitNow, eidx, emitted, entries, hits,
                   misses, listCalls, getCalls, fetchCalls, setCalls, evictCalls,
                   listErr, lookup, cache0, visited, runtime, scrapes, calls, thr, mu,
                   cyc, heap>>

\* if cfg.Collection.Collectors.System { registry.MustRegister(sc) }, then
\* server.NewServer
RegisterSystemCollector ==
    /\ pc = "register-system"
    /\ IF cfg.System
       THEN LET r == Register(descIDs, SystemDescribe)
            IN /\ descIDs' = r.ids
               /\ last' = [op |-> "MustRegister", collector |-> "system",
                           descs |-> SystemDescribe, held |-> descIDs, err |-> r.err]
               /\ pc' = IF r.err = Nil THEN "serving" ELSE "panic"
       ELSE /\ pc' = "serving"
            /\ descIDs' = descIDs
            /\ last' = last
    /\ UNCHANGED <<cfg, now, cycle, start, containers, filtered, idx, results, worker,
                   sem, wg, scrapeErrors, emitNow, eidx, emitted, entries, hits,
                   misses, listCalls, getCalls, fetchCalls, setCalls, evictCalls,
                   listErr, lookup, cache0, visited, runtime, scrapes, calls, thr, mu,
                   cyc, heap>>

StartNext == RegisterContainerCollector \/ RegisterSystemCollector \/ ServeRequest

StartSpec == StartInit /\ [][StartNext]_vars

\* C40: the set of descriptors announced by ContainerCollector.Describe and
\* the set announced by SystemCollector.Describe are disjoint, so that both
\* collectors can be registered in the one registry that main builds when
\* both collectors are enabled: a collector that main registers describes no
\* descriptor the registry already holds, and its registration succeeds.
C40_DescribeDisjoint ==
    last.op = "MustRegister" =>
        /\ last.descs \cap last.held = {}
        /\ last.err = Nil
        /\ pc # "panic"

====
